---- MODULE Spec2Model ----
(***************************************************************************)
(* Model of the training-schedule endpoint of backend/schedule.py:         *)
(* POST /api/schedule (generate_schedule_endpoint), its helper functions   *)
(* and the ScheduleCache table it reads and appends to.                    *)
(*                                                                         *)
(* Python floats are modelled as exact rationals <<n, d>> (d > 0, lowest   *)
(* terms); round() is round-half-to-even as in Python 3.  Time strings     *)
(* ("m:ss", "h:mm:ss") are sequences of one-character strings; the string  *)
(* "N/A" and Python's None are the empty tuple.                            *)
(***************************************************************************)
EXTENDS Integers, Sequences, FiniteSets, TLC

VARIABLES now, race_data, schedule_cache, request, response, call

vars == <<now, race_data, schedule_cache, request, response, call>>

\* Python's None and the string "N/A": a value that is absent.
None == <<>>

Some(x) == <<x>>

----------------------------------------------------------------------------
\* Exact arithmetic standing for Python's float arithmetic.

Abs(x) == IF x < 0 THEN -x ELSE x

RECURSIVE Gcd(_, _)
Gcd(a, b) == IF b = 0 THEN a ELSE Gcd(b, a % b)

Rat(n, d) ==
    LET g == Gcd(Abs(n), Abs(d))
        s == IF d < 0 THEN -1 ELSE 1
    IN  <<(s * n) \div g, (s * d) \div g>>

RInt(n) == <<n, 1>>

\* Sums and products cancel common factors before they multiply, which keeps
\* the numerators and denominators small.
RAdd(a, b) ==
    LET g == Gcd(a[2], b[2])
    IN  Rat(a[1] * (b[2] \div g) + b[1] * (a[2] \div g), (a[2] \div g) * b[2])

RSub(a, b) ==
    LET g == Gcd(a[2], b[2])
    IN  Rat(a[1] * (b[2] \div g) - b[1] * (a[2] \div g), (a[2] \div g) * b[2])

RMul(a, b) ==
    LET g1 == Gcd(Abs(a[1]), b[2])
        g2 == Gcd(Abs(b[1]), a[2])
    IN  Rat((a[1] \div g1) * (b[1] \div g2), (a[2] \div g2) * (b[2] \div g1))

RDiv(a, b) == RMul(a, IF b[1] < 0 THEN <<-b[2], -b[1]>> ELSE <<b[2], b[1]>>)

RLess(a, b) == a[1] * b[2] < b[1] * a[2]

\* int(x // 1): the floor of a rational.
RFloor(a) == a[1] \div a[2]

\* round(x): nearest integer, ties to the even one.
RRound(a) ==
    LET f == RFloor(a)
        twice == 2 * (a[1] - f * a[2])
    IN  IF twice < a[2] THEN f
        ELSE IF twice > a[2] THEN f + 1
        ELSE IF f % 2 = 0 THEN f ELSE f + 1

\* round(x, 1): x rounded to one decimal, kept as a rational.
RRound1(a) == Rat(RRound(RMul(a, RInt(10))), 10)

----------------------------------------------------------------------------
\* schedule.py:364
week_days ==
    <<"Monday", "Tuesday", "Wednesday", "Thursday", "Friday", "Saturday", "Sunday">>

Range(s) == {s[i] : i \in DOMAIN s}

\* list.index
IndexOf(s, x) == CHOOSE i \in DOMAIN s : s[i] = x /\ \A j \in 1..(i - 1) : s[j] # x

\* [x for x in s if x != y]
Without(s, y) == SelectSeq(s, LAMBDA x : x # y)

\* list.remove(y): drops the first occurrence of y (y is in s)
Remove(s, y) ==
    LET i == IndexOf(s, y)
    IN  SubSeq(s, 1, i - 1) \o SubSeq(s, i + 1, Len(s))

\* [x] * n, empty when n <= 0
Repeat(x, n) == [i \in 1..n |-> x]

\* get_training_plan_length with int() for round().
get_training_plan_length_Truncated(training_distance, experience_level) ==
    LET base_length ==
            CASE training_distance = "5K" -> 12
              [] training_distance = "10K" -> 16
              [] training_distance = "HalfMarathon" -> 20
              [] training_distance = "Marathon" -> 24
              [] OTHER -> 16
        experience_multiplier ==
            IF experience_level = "advanced" THEN Rat(9, 10) ELSE Rat(1, 1)
    IN  RFloor(RMul(RInt(base_length), experience_multiplier))

\* schedule.py:13-19
get_training_plan_length(training_distance, experience_level) ==
    LET base_length ==
            CASE training_distance = "5K" -> 12
              [] training_distance = "10K" -> 16
              [] training_distance = "HalfMarathon" -> 20
              [] training_distance = "Marathon" -> 24
              [] OTHER -> 16
        experience_multiplier ==
            CASE experience_level = "beginner" -> Rat(1, 1)
              [] experience_level = "intermediate" -> Rat(1, 1)
              [] experience_level = "advanced" -> Rat(9, 10)
              [] OTHER -> Rat(1, 1)
    IN  RRound(RMul(RInt(base_length), experience_multiplier))

\* determine_race_phase with week 6 taken for a peak week.
determine_race_phase_PeakThrough6(weeks_until_race, training_distance) ==
    IF weeks_until_race > 10 THEN "base"
    ELSE IF 6 < weeks_until_race /\ weeks_until_race <= 10 THEN "build"
    ELSE IF 3 <= weeks_until_race /\ weeks_until_race <= 6 THEN "peak"
    ELSE "taper"

\* schedule.py:21-36
determine_race_phase(weeks_until_race, training_distance) ==
    IF weeks_until_race > 10 THEN "base"
    ELSE IF 6 <= weeks_until_race /\ weeks_until_race <= 10 THEN "build"
    ELSE IF 3 <= weeks_until_race /\ weeks_until_race < 6 THEN "peak"
    ELSE "taper"

\* schedule.py:38-68
get_default_weekly_mileage(training_distance, experience_level, training_goal) ==
    LET defaults ==
            CASE training_distance = "Marathon" -> 50
              [] training_distance = "Half Marathon" -> 35
              [] training_distance = "10K" -> 25
              [] training_distance = "5K" -> 20
              [] OTHER -> 25
        m1 == IF experience_level = "beginner" THEN RMul(RInt(defaults), Rat(85, 100))
              ELSE IF experience_level = "advanced" THEN RMul(RInt(defaults), Rat(12, 10))
              ELSE RInt(defaults)
    IN  IF training_goal = "finish" THEN RMul(m1, Rat(9, 10))
        ELSE IF training_goal = "compete" THEN RMul(m1, Rat(11, 10))
        ELSE m1

\* calculate_phase_multiplier with ramps over the parts of the plan: the base
\* phase over its first 0.3, build over the next 0.5, peak and taper over 0.1.
calculate_phase_multiplier_Ramps(race_phase, current_week, total_weeks) ==
    LET w == RInt(current_week)
        T == RInt(total_weeks)
        ramp(from, slope, start, length) ==
            RAdd(from, RMul(slope, RDiv(RSub(w, RMul(start, T)), RMul(length, T))))
    IN  CASE race_phase = "base" -> ramp(Rat(8, 10), Rat(2, 10), RInt(0), Rat(3, 10))
          [] race_phase = "build" -> ramp(Rat(9, 10), Rat(3, 10), Rat(3, 10), Rat(5, 10))
          [] race_phase = "peak" -> ramp(Rat(11, 10), Rat(1, 10), Rat(8, 10), Rat(1, 10))
          [] race_phase = "taper" -> ramp(Rat(12, 10), Rat(-4, 10), Rat(9, 10), Rat(1, 10))
          [] OTHER -> RInt(1)

\* calculate_phase_multiplier with its result kept within 0.8 .. 1.1.
calculate_phase_multiplier_Clamped(race_phase, current_week, total_weeks) ==
    LET ratio == RDiv(RInt(current_week), RInt(total_weeks))
        m == CASE race_phase = "base" -> RAdd(Rat(8, 10), RMul(Rat(2, 10), ratio))
               [] race_phase = "build" -> RAdd(RInt(1), RMul(Rat(1, 10), ratio))
               [] race_phase = "peak" -> Rat(11, 10)
               [] race_phase = "taper" -> RSub(RInt(1), RMul(Rat(4, 10), ratio))
               [] OTHER -> RInt(1)
    IN  IF RLess(m, Rat(8, 10)) THEN Rat(8, 10)
        ELSE IF RLess(Rat(11, 10), m) THEN Rat(11, 10) ELSE m

\* schedule.py:70-87
calculate_phase_multiplier(race_phase, current_week, total_weeks) ==
    CASE race_phase = "base" ->
            RAdd(Rat(8, 10), RDiv(RMul(Rat(2, 10), RInt(current_week)), RInt(total_weeks)))
      [] race_phase = "build" ->
            RAdd(RInt(1), RDiv(RMul(Rat(1, 10), RInt(current_week)), RInt(total_weeks)))
      [] race_phase = "peak" -> Rat(11, 10)
      [] race_phase = "taper" ->
            RSub(RInt(1), RMul(Rat(4, 10), RDiv(RInt(current_week), RInt(total_weeks))))
      [] OTHER -> RInt(1)

\* schedule.py:89-98; raises ValueError when long_run_day is no weekday
get_run_days_simple(days, run_days, long_run_day) ==
    LET others == Without(days, long_run_day)
        take == IF run_days - 1 < 0 THEN 0
                ELSE IF run_days - 1 > Len(others) THEN Len(others) ELSE run_days - 1
        selected == {long_run_day} \cup {others[i] : i \in 1..take}
    IN  SelectSeq(days, LAMBDA d : d \in selected)

\* schedule.py:102-139
workout_rules_phase_aware(race_phase, run_days) ==
    LET easy == <<"LongRun">> \o Repeat("Easy", run_days - 1)
    IN  CASE race_phase = "base" -> easy
          [] race_phase = "taper" -> easy
          [] race_phase = "build" ->
               (CASE run_days = 1 -> <<"LongRun">>
                  [] run_days = 2 -> <<"LongRun", "Easy">>
                  [] run_days = 3 -> <<"LongRun", "Easy", "Threshold">>
                  [] run_days = 4 -> <<"LongRun", "Easy", "Easy", "Threshold">>
                  [] run_days = 5 -> <<"LongRun", "Easy", "Easy", "Threshold", "Easy">>
                  [] run_days = 6 ->
                        <<"LongRun", "Easy", "Easy", "Threshold", "Easy", "Easy">>
                  [] run_days = 7 ->
                        <<"LongRun", "Easy", "Easy", "Threshold", "Easy", "Easy", "Easy">>)
          [] race_phase = "peak" ->
               (CASE run_days = 1 -> <<"LongRun">>
                  [] run_days = 2 -> <<"LongRun", "Easy">>
                  [] run_days = 3 -> <<"LongRun", "Easy", "Intervals">>
                  [] run_days = 4 -> <<"LongRun", "Easy", "Intervals", "Threshold">>
                  [] run_days = 5 ->
                        <<"LongRun", "Easy", "Intervals", "Threshold", "Easy">>
                  [] run_days = 6 ->
                        <<"LongRun", "Easy", "Intervals", "Threshold", "Easy", "Recovery">>
                  [] run_days = 7 ->
                        <<"LongRun", "Easy", "Intervals", "Threshold", "Easy", "Recovery",
                          "Easy">>)

\* The table lookup missing for every key: the fallback of schedule.py:143 alone.
generate_workout_types_rule_based_phase_aware_Fallback(race_phase, current_week, total_weeks, run_days, training_distance) ==
    Repeat("Easy", run_days)

\* schedule.py:100-143
generate_workout_types_rule_based_phase_aware(race_phase, current_week, total_weeks, run_days, training_distance) ==
    IF race_phase \in {"base", "build", "peak", "taper"} /\ run_days \in 1..7
    THEN workout_rules_phase_aware(race_phase, run_days)
    ELSE Repeat("Easy", run_days)

\* schedule.py:145-158
get_distance_factor(run_type, race_phase, current_week, total_weeks) ==
    LET base_factors ==
            CASE run_type = "Recovery" -> Rat(10, 100)
              [] run_type = "Easy" -> Rat(15, 100)
              [] run_type = "Threshold" -> Rat(12, 100)
              [] run_type = "Intervals" -> Rat(10, 100)
              [] run_type = "LongRun" -> Rat(25, 100)
              [] OTHER -> Rat(15, 100)
        cw == RInt(current_week)
        tw == RInt(total_weeks)
    IN  IF run_type # "LongRun" THEN base_factors
        ELSE CASE race_phase = "base" ->
                    RAdd(Rat(25, 100),
                         RDiv(RMul(Rat(5, 100), cw), RMul(tw, Rat(3, 10))))
               [] race_phase = "build" ->
                    RSub(Rat(30, 100),
                         RDiv(RMul(Rat(2, 100), RSub(cw, RMul(tw, Rat(3, 10)))),
                              RMul(tw, Rat(5, 10))))
               [] race_phase = "peak" -> Rat(28, 100)
               [] race_phase = "taper" ->
                    RSub(Rat(20, 100),
                         RDiv(RMul(Rat(5, 100), RSub(cw, RMul(tw, Rat(9, 10)))),
                              RMul(tw, Rat(1, 10))))
               [] OTHER -> base_factors

\* schedule.py:160-204; the sentence is its template, the distance printed in it
\* and, in the one template that prints it, round(distance * 0.5)
generate_workout_details(run_type, race_phase, current_week, total_weeks, training_distance, distance) ==
    LET plain(t) == [template |-> t, km |-> distance, mid |-> None]
    IN  CASE run_type = "LongRun" ->
               (CASE race_phase = "base" -> plain("Long run: easy, conversational pace")
                  [] race_phase = "build" -> plain("Long run: last 3-5 km at marathon pace")
                  [] race_phase = "peak" ->
                        IF training_distance = "Marathon"
                        THEN [template |-> "Long run: middle at race pace", km |-> distance,
                              mid |-> Some(RRound(RMul(distance, Rat(1, 2))))]
                        ELSE plain("Long run: progressive effort")
                  [] OTHER -> plain("Shorter long run: easy pace"))
          [] run_type = "Recovery" -> plain("Recovery run: very relaxed pace")
          [] run_type = "Easy" -> plain("Easy run: comfortable, steady pace")
          [] run_type = "Threshold" ->
               (CASE race_phase = "base" -> plain("Threshold: 2-3 x 5 min")
                  [] race_phase = "build" -> plain("Threshold: 20 minutes")
                  [] race_phase = "peak" -> plain("Threshold: 2 x 15 min")
                  [] OTHER -> plain("Threshold: 10 minutes"))
          [] run_type = "Intervals" ->
                IF training_distance \in {"5K", "10K"}
                THEN (CASE race_phase = "base" -> plain("Intervals: 6-8 x 400m at 5K effort")
                       [] race_phase = "build" -> plain("Intervals: 5-6 x 800m at 5K effort")
                       [] race_phase = "peak" -> plain("Intervals: 5 x 1000m at 5K effort")
                       [] OTHER -> plain("Intervals: 3-4 x 400m at 5K effort"))
                ELSE (CASE race_phase = "build" -> plain("Intervals: 6-8 x 400m at 10K effort")
                       [] race_phase = "peak" -> plain("Intervals: 3-4 x 1 mile at 10K effort")
                       [] OTHER -> plain("Intervals: 4-5 x 400m at 10K effort"))
          [] OTHER -> plain("run")

\* schedule.py:206-215
generate_rest_day_details(rest_day_type) ==
    [template |->
        IF rest_day_type = "Active Recovery" THEN "Light activity"
        ELSE IF rest_day_type = "Strength Training" THEN "Running-specific strength exercises"
        ELSE "Complete rest day",
     km |-> None, mid |-> None]

\* schedule.py:217-224
calculate_intensity_score(run_type, distance, pace_minutes) ==
    IF pace_minutes = None THEN 0
    ELSE LET intensity_factor ==
                 CASE run_type = "Recovery" -> Rat(7, 10)
                   [] run_type = "Easy" -> Rat(8, 10)
                   [] run_type = "Threshold" -> Rat(1, 1)
                   [] run_type = "Intervals" -> Rat(12, 10)
                   [] run_type = "LongRun" -> Rat(85, 100)
                   [] OTHER -> Rat(8, 10)
         IN  RRound(RMul(RMul(distance, intensity_factor), pace_minutes[1]))

\* schedule.py:250-251: while rest days are missing, take available_days.pop(),
\* the LAST day still available
\* PopRestDays with pop(0) for pop(): the first available day is taken.
RECURSIVE PopRestDays_FromFront(_, _, _)
PopRestDays_FromFront(rest_days, available_days, rest_days_needed) ==
    IF Len(rest_days) < rest_days_needed /\ Len(available_days) > 0
    THEN PopRestDays_FromFront(Append(rest_days, available_days[1]),
                               Tail(available_days), rest_days_needed)
    ELSE rest_days

RECURSIVE PopRestDays(_, _, _)
PopRestDays(rest_days, available_days, rest_days_needed) ==
    IF Len(rest_days) < rest_days_needed /\ Len(available_days) > 0
    THEN PopRestDays(Append(rest_days, available_days[Len(available_days)]),
                     SubSeq(available_days, 1, Len(available_days) - 1),
                     rest_days_needed)
    ELSE rest_days

\* ChooseRestDays without the preferred days of schedule.py:241-246.
ChooseRestDays_NoPreference(long_run_day, days, run_days) ==
    PopRestDays(<<>>, Without(days, long_run_day), 7 - run_days)

\* ChooseRestDays with the while loop of schedule.py:250-251 left out.
ChooseRestDays_PreferredOnly(long_run_day, days, run_days) ==
    LET rest_days_needed == 7 - run_days
        available0 == Without(days, long_run_day)
        monday == rest_days_needed >= 2 /\ "Monday" \in Range(available0)
        rest1 == IF monday THEN <<"Monday">> ELSE <<>>
        available1 == IF monday THEN Remove(available0, "Monday") ELSE available0
        friday == /\ rest_days_needed >= 2
                  /\ "Friday" \in Range(available1)
                  /\ Len(rest1) < rest_days_needed
    IN  IF friday THEN Append(rest1, "Friday") ELSE rest1

\* ChooseRestDays with available_days = week_days: the long-run day is not
\* taken out of the days a rest day is chosen from.
ChooseRestDays_LongRunDayAvailable(long_run_day, days, run_days) ==
    LET rest_days_needed == 7 - run_days
        available0 == days
        monday == rest_days_needed >= 2 /\ "Monday" \in Range(available0)
        rest1 == IF monday THEN <<"Monday">> ELSE <<>>
        available1 == IF monday THEN Remove(available0, "Monday") ELSE available0
        friday == /\ rest_days_needed >= 2
                  /\ "Friday" \in Range(available1)
                  /\ Len(rest1) < rest_days_needed
        rest2 == IF friday THEN Append(rest1, "Friday") ELSE rest1
        available2 == IF friday THEN Remove(available1, "Friday") ELSE available1
    IN  PopRestDays(rest2, available2, rest_days_needed)

\* schedule.py:235-253: the rest days chosen for the week
ChooseRestDays(long_run_day, days, run_days) ==
    LET rest_days_needed == 7 - run_days
        available0 == Without(days, long_run_day)
        monday == rest_days_needed >= 2 /\ "Monday" \in Range(available0)
        rest1 == IF monday THEN <<"Monday">> ELSE <<>>
        available1 == IF monday THEN Remove(available0, "Monday") ELSE available0
        friday == /\ rest_days_needed >= 2
                  /\ "Friday" \in Range(available1)
                  /\ Len(rest1) < rest_days_needed
        rest2 == IF friday THEN Append(rest1, "Friday") ELSE rest1
        available2 == IF friday THEN Remove(available1, "Friday") ELSE available1
    IN  PopRestDays(rest2, available2, rest_days_needed)

\* improve_run_schedule_rule_based with workout_types for workout_types_filtered
\* in the loop of schedule.py:264-268: LongRun is not taken out of the list.
improve_run_schedule_rule_based_KeepsLongRun(workout_types, long_run_day, days, run_days) ==
    LET rest_days == Range(ChooseRestDays(long_run_day, days, run_days))
        assigned == {long_run_day} \cup rest_days
        remaining_run_days == SelectSeq(days, LAMBDA d : d \notin assigned)
        workout(d) ==
            LET idx == IndexOf(remaining_run_days, d)
            IN  IF idx <= Len(workout_types) THEN workout_types[idx] ELSE "Easy"
    IN  [d \in assigned \cup Range(remaining_run_days) |->
            IF d \in rest_days THEN "Rest"
            ELSE IF d = long_run_day THEN "LongRun"
            ELSE workout(d)]

\* schedule.py:226-270: the dict final_schedule, as a function day -> workout type
improve_run_schedule_rule_based(workout_types, long_run_day, days, run_days) ==
    LET rest_days == Range(ChooseRestDays(long_run_day, days, run_days))
        assigned == {long_run_day} \cup rest_days
        remaining_run_days == SelectSeq(days, LAMBDA d : d \notin assigned)
        workout_types_filtered == Without(workout_types, "LongRun")
        workout(d) ==
            LET idx == IndexOf(remaining_run_days, d)
            IN  IF idx <= Len(workout_types_filtered)
                THEN workout_types_filtered[idx] ELSE "Easy"
    IN  [d \in assigned \cup Range(remaining_run_days) |->
            IF d \in rest_days THEN "Rest"
            ELSE IF d = long_run_day THEN "LongRun"
            ELSE workout(d)]

----------------------------------------------------------------------------
\* Time strings, character by character.

DigitChars == <<"0", "1", "2", "3", "4", "5", "6", "7", "8", "9">>

\* str(n) for an integer n
RECURSIVE IntToStr(_)
IntToStr(n) ==
    IF n < 0 THEN <<"-">> \o IntToStr(-n)
    ELSE IF n < 10 THEN <<DigitChars[n + 1]>>
    ELSE Append(IntToStr(n \div 10), DigitChars[(n % 10) + 1])

\* f"{n:02d}"
Pad2(n) == IF 0 <= n /\ n < 10 THEN <<"0">> \o IntToStr(n) ELSE IntToStr(n)

\* str.split(':')
RECURSIVE SplitColon(_)
SplitColon(str) ==
    IF \A i \in DOMAIN str : str[i] # ":" THEN <<str>>
    ELSE LET i == IndexOf(str, ":")
         IN  <<SubSeq(str, 1, i - 1)>> \o SplitColon(SubSeq(str, i + 1, Len(str)))

RECURSIVE DigitsValue(_)
DigitsValue(ds) ==
    IF Len(ds) = 0 THEN 0
    ELSE 10 * DigitsValue(SubSeq(ds, 1, Len(ds) - 1))
         + (IndexOf(DigitChars, ds[Len(ds)]) - 1)

\* int(part): Some(value), or None where Python raises ValueError
ParseInt(part) ==
    LET signed == Len(part) > 0 /\ part[1] \in {"-", "+"}
        digits == IF signed THEN SubSeq(part, 2, Len(part)) ELSE part
    IN  IF Len(digits) = 0 \/ \E i \in DOMAIN digits : digits[i] \notin Range(DigitChars)
        THEN None
        ELSE IF signed /\ part[1] = "-" THEN Some(-DigitsValue(digits))
        ELSE Some(DigitsValue(digits))

\* schedule.py:272-287: Some(seconds), or None
time_str_to_seconds(time_str) ==
    LET parts == SplitColon(time_str)
        ints == [i \in DOMAIN parts |-> ParseInt(parts[i])]
    IN  IF Len(parts) = 2
        THEN IF ints[1] = None \/ ints[2] = None THEN None
             ELSE Some(ints[1][1] * 60 + ints[2][1])
        ELSE IF Len(parts) = 3
        THEN IF ints[1] = None \/ ints[2] = None \/ ints[3] = None THEN None
             ELSE Some(ints[1][1] * 3600 + ints[2][1] * 60 + ints[3][1])
        ELSE None

\* seconds_to_time_str with round() for int() on the seconds below one hour.
seconds_to_time_str_Rounded(seconds) ==
    IF RLess(seconds, RInt(3600))
    THEN LET minutes == RFloor(RDiv(seconds, RInt(60)))
             secs == RRound(RSub(seconds, RInt(60 * minutes)))
         IN  IntToStr(minutes) \o <<":">> \o Pad2(secs)
    ELSE LET hours == RFloor(RDiv(seconds, RInt(3600)))
             remaining == RSub(seconds, RInt(3600 * hours))
             minutes == RFloor(RDiv(remaining, RInt(60)))
             secs == RFloor(remaining) % 60
         IN  IntToStr(hours) \o <<":">> \o Pad2(minutes) \o <<":">> \o Pad2(secs)

\* seconds_to_time_str with {secs} for {secs:02d} below one hour.
seconds_to_time_str_Unpadded(seconds) ==
    IF RLess(seconds, RInt(3600))
    THEN LET minutes == RFloor(RDiv(seconds, RInt(60)))
             secs == RFloor(seconds) % 60
         IN  IntToStr(minutes) \o <<":">> \o IntToStr(secs)
    ELSE LET hours == RFloor(RDiv(seconds, RInt(3600)))
             remaining == RSub(seconds, RInt(3600 * hours))
             minutes == RFloor(RDiv(remaining, RInt(60)))
             secs == RFloor(remaining) % 60
         IN  IntToStr(hours) \o <<":">> \o Pad2(minutes) \o <<":">> \o Pad2(secs)

\* schedule.py:289-300, for a rational number of seconds
seconds_to_time_str(seconds) ==
    IF RLess(seconds, RInt(3600))
    THEN LET minutes == RFloor(RDiv(seconds, RInt(60)))
             secs == RFloor(seconds) % 60
         IN  IntToStr(minutes) \o <<":">> \o Pad2(secs)
    ELSE LET hours == RFloor(RDiv(seconds, RInt(3600)))
             remaining == RSub(seconds, RInt(3600 * hours))
             minutes == RFloor(RDiv(remaining, RInt(60)))
             secs == RFloor(remaining) % 60
         IN  IntToStr(hours) \o <<":">> \o Pad2(minutes) \o <<":">> \o Pad2(secs)

\* schedule.py:302-314: Some(minutes as a rational), or None
pace_str_to_minutes(pace_str) ==
    IF pace_str = None THEN None
    ELSE LET parts == SplitColon(pace_str)
         IN  IF Len(parts) # 2 THEN None
             ELSE LET m == ParseInt(parts[1])
                      sec == ParseInt(parts[2])
                  IN  IF m = None \/ sec = None THEN None
                      ELSE Some(RAdd(RInt(m[1]), Rat(sec[1], 60)))

\* schedule.py:330
distance_km(training_distance) ==
    CASE training_distance = "5K" -> RInt(5)
      [] training_distance = "10K" -> RInt(10)
      [] training_distance = "HalfMarathon" -> Rat(211, 10)
      [] training_distance = "Marathon" -> Rat(422, 10)
      [] OTHER -> RInt(5)

\* calculate_running_paces with the factors of Easy and LongRun exchanged.
calculate_running_paces_Swapped(race_prediction_str, training_distance) ==
    LET base_total_seconds == time_str_to_seconds(race_prediction_str)
    IN  IF base_total_seconds = None THEN None
        ELSE LET base_pace == RDiv(RInt(base_total_seconds[1]), distance_km(training_distance))
             IN  [Recovery |-> seconds_to_time_str(RMul(base_pace, Rat(130, 100))),
                  Easy |-> seconds_to_time_str(RMul(base_pace, Rat(120, 100))),
                  Threshold |-> seconds_to_time_str(RMul(base_pace, Rat(104, 100))),
                  LongRun |-> seconds_to_time_str(RMul(base_pace, Rat(115, 100)))]

\* schedule.py:316-342: the dict of paces, or None
calculate_running_paces(race_prediction_str, training_distance) ==
    LET base_total_seconds == time_str_to_seconds(race_prediction_str)
    IN  IF base_total_seconds = None THEN None
        ELSE LET base_pace == RDiv(RInt(base_total_seconds[1]), distance_km(training_distance))
             IN  [Recovery |-> seconds_to_time_str(RMul(base_pace, Rat(130, 100))),
                  Easy |-> seconds_to_time_str(RMul(base_pace, Rat(115, 100))),
                  Threshold |-> seconds_to_time_str(RMul(base_pace, Rat(104, 100))),
                  LongRun |-> seconds_to_time_str(RMul(base_pace, Rat(120, 100)))]

----------------------------------------------------------------------------
\* The request: str.capitalize, str.lower and date.fromisoformat on the strings
\* the model sends.

Capitalize(str) ==
    CASE str = "saturday" -> "Saturday"
      [] str = "MONDAY" -> "Monday"
      [] str = "funday" -> "Funday"
      [] OTHER -> str

Lower(str) ==
    CASE str = "Auto" -> "auto"
      [] str = "BUILD" -> "build"
      [] str = "Advanced" -> "advanced"
      [] str = "PR" -> "pr"
      [] OTHER -> str

\* The ISO dates of the model, as days since 2026-01-01 (date.toordinal up to a
\* shift); every other string makes date.fromisoformat raise.
IsoDates == {"2025-12-20", "2026-02-12", "2026-02-13", "2026-03-26"}

IsIsoDate(str) == str \in IsoDates

fromisoformat(str) ==
    CASE str = "2025-12-20" -> -12
      [] str = "2026-02-12" -> 42
      [] str = "2026-02-13" -> 43
      [] str = "2026-03-26" -> 84

\* schedule.py:401: timedelta(hours=24)
CacheTtlHours == 24

\* date.today(), with now counted in hours since 2026-01-01T00:00
Today(t) == t \div 24

\* dict.get(key, default)
Get(data, key, default) == IF key \in DOMAIN data THEN data[key] ELSE default

\* schedule.py:351
required_fields == {"runDays", "longRunDay", "trainingDistance", "raceDate", "racePhase"}

\* schedule.py:352
HasRequiredFields(data) == required_fields \subseteq DOMAIN data

\* schedule.py:355-362: the locals read from the request body
ReadRequest(data) ==
    [run_days |-> data.runDays,
     long_run_day |-> Capitalize(data.longRunDay),
     training_distance |-> data.trainingDistance,
     race_date |-> data.raceDate,
     race_phase |-> Lower(data.racePhase),
     current_mileage |-> Get(data, "currentMileage", None),
     experience_level |-> Lower(Get(data, "experienceLevel", "intermediate")),
     training_goal |-> Lower(Get(data, "trainingGoal", "pr"))]

\* The check of schedule.py:365-366 left out.
ValidLongRunDay_Any(long_run_day) == TRUE

\* schedule.py:365
ValidLongRunDay(long_run_day) == long_run_day \in Range(week_days)

\* schedule.py:369-372
ValidRaceDate(race_date) == IsIsoDate(race_date)

\* The microcycle without its deload week.
CycleMultiplier_NoDeload(current_week) ==
    IF current_week % 4 = 3 THEN Rat(11, 10) ELSE RInt(1)

\* schedule.py:383-386
CycleMultiplier(current_week) ==
    IF current_week % 4 = 0 THEN Rat(8, 10)
    ELSE IF current_week % 4 = 3 THEN Rat(11, 10)
    ELSE RInt(1)

\* PhaseState without the max(0, ...) of schedule.py:373.
PhaseState_Unclamped(r, today) ==
    LET days_left == fromisoformat(r.race_date) - today
        weeks_until_race == days_left \div 7
        race_phase == IF r.race_phase = "auto"
                      THEN determine_race_phase(weeks_until_race, r.training_distance)
                      ELSE r.race_phase
        total_weeks == get_training_plan_length(r.training_distance, r.experience_level)
        current_week == IF total_weeks - weeks_until_race > 1
                        THEN total_weeks - weeks_until_race ELSE 1
        default_mileage == get_default_weekly_mileage(r.training_distance,
                                                      r.experience_level, r.training_goal)
        phase_multiplier == calculate_phase_multiplier(race_phase, current_week, total_weeks)
        cycle_multiplier == CycleMultiplier(current_week)
    IN  [weeks_until_race |-> weeks_until_race,
         race_phase |-> race_phase,
         total_weeks |-> total_weeks,
         current_week |-> current_week,
         weekly_mileage |->
             IF r.current_mileage # None THEN r.current_mileage
             ELSE RMul(RMul(default_mileage, phase_multiplier), cycle_multiplier)]

\* schedule.py:373-387: phase, weeks and weekly mileage of the request r on day today
PhaseState(r, today) ==
    LET days_left == fromisoformat(r.race_date) - today
        weeks_until_race == IF days_left \div 7 > 0 THEN days_left \div 7 ELSE 0
        race_phase == IF r.race_phase = "auto"
                      THEN determine_race_phase(weeks_until_race, r.training_distance)
                      ELSE r.race_phase
        total_weeks == get_training_plan_length(r.training_distance, r.experience_level)
        current_week == IF total_weeks - weeks_until_race > 1
                        THEN total_weeks - weeks_until_race ELSE 1
        default_mileage == get_default_weekly_mileage(r.training_distance,
                                                      r.experience_level, r.training_goal)
        phase_multiplier == calculate_phase_multiplier(race_phase, current_week, total_weeks)
        cycle_multiplier == CycleMultiplier(current_week)
    IN  [weeks_until_race |-> weeks_until_race,
         race_phase |-> race_phase,
         total_weeks |-> total_weeks,
         current_week |-> current_week,
         weekly_mileage |->
             IF r.current_mileage # None THEN r.current_mileage
             ELSE RMul(RMul(default_mileage, phase_multiplier), cycle_multiplier)]

\* Fingerprint with the run_days column left out of the filter.
Fingerprint_NoRunDays(r, ps) ==
    [race_date |-> r.race_date,
     training_distance |-> r.training_distance,
     race_phase |-> ps.race_phase,
     run_days |-> 0,
     long_run_day |-> r.long_run_day,
     current_mileage |-> ps.weekly_mileage,
     experience_level |-> r.experience_level,
     training_goal |-> r.training_goal]

\* schedule.py:390-398 and 495-503: the columns a cache row is filtered and stored by
Fingerprint(r, ps) ==
    [race_date |-> r.race_date,
     training_distance |-> r.training_distance,
     race_phase |-> ps.race_phase,
     run_days |-> r.run_days,
     long_run_day |-> r.long_run_day,
     current_mileage |-> ps.weekly_mileage,
     experience_level |-> r.experience_level,
     training_goal |-> r.training_goal]

\* models.py:36-47: the columns of a row that Fingerprint names
RowKey(row) ==
    [race_date |-> row.race_date,
     training_distance |-> row.training_distance,
     race_phase |-> row.race_phase,
     run_days |-> row.run_days,
     long_run_day |-> row.long_run_day,
     current_mileage |-> row.current_mileage,
     experience_level |-> row.experience_level,
     training_goal |-> row.training_goal]

\* schedule.py:390-399: filter_by(...).order_by(timestamp.desc()).first() returns
\* one of the matching rows with the greatest timestamp; the set of their ids
\* (positions in the table), empty when no row matches
CacheLookup(cache, fp) ==
    LET matching == {i \in DOMAIN cache : RowKey(cache[i]) = fp}
    IN  {i \in matching : \A j \in matching : cache[j].timestamp <= cache[i].timestamp}

\* The freshness test with <= for <: a row of exactly 24 hours still answers.
IsFresh_Inclusive(row, t) == t - row.timestamp <= CacheTtlHours

\* schedule.py:401
IsFresh(row, t) == t - row.timestamp < CacheTtlHours

\* A default time standing in for a prediction that is missing.
PredictionSeconds_Default(predictions, training_distance) ==
    LET found == CASE training_distance = "5K" -> predictions.time5K
                   [] training_distance = "10K" -> predictions.time10K
                   [] training_distance = "HalfMarathon" -> predictions.timeHalfMarathon
                   [] training_distance = "Marathon" -> predictions.timeMarathon
                   [] OTHER -> None
    IN  IF found = None THEN Some(1500) ELSE found

\* schedule.py:411-420: Some(seconds), or None
PredictionSeconds(predictions, training_distance) ==
    CASE training_distance = "5K" -> predictions.time5K
      [] training_distance = "10K" -> predictions.time10K
      [] training_distance = "HalfMarathon" -> predictions.timeHalfMarathon
      [] training_distance = "Marathon" -> predictions.timeMarathon
      [] OTHER -> None

\* schedule.py:438
KnownRunTypes ==
    {"Recovery", "Easy", "Threshold", "Intervals", "LongRun", "Rest", "Active Recovery",
     "Strength Training"}

RestTypes == {"Rest", "Active Recovery", "Strength Training"}

\* ComposeDay without the rest-day conditions of schedule.py:455-456: the
\* distance and the score are reported for every type.
ComposeDay_NoRestCase(day, run_type, r, ps, running_paces) ==
    LET target_pace == Get(running_paces, run_type, None)
        pace_minutes == IF target_pace # None THEN pace_str_to_minutes(target_pace)
                        ELSE None
        distance_factor == get_distance_factor(run_type, ps.race_phase,
                                               ps.current_week, ps.total_weeks)
        run_distance == RRound1(RMul(ps.weekly_mileage, distance_factor))
    IN  [Day |-> day,
         WorkoutType |-> run_type,
         WorkoutDetails |->
             IF run_type \in {"Rest", "Active Recovery", "Strength Training"}
             THEN generate_rest_day_details(run_type)
             ELSE generate_workout_details(run_type, ps.race_phase, ps.current_week,
                                           ps.total_weeks, r.training_distance,
                                           run_distance),
         TargetPace |-> IF target_pace # None THEN target_pace \o <<" per km">> ELSE None,
         Duration |-> IF pace_minutes # None /\ pace_minutes[1] # RInt(0)
                      THEN Some(RRound(RMul(run_distance, pace_minutes[1])))
                      ELSE None,
         Distance |-> Some(run_distance),
         IntensityScore |-> calculate_intensity_score(run_type, run_distance, pace_minutes)]

\* schedule.py:436-467: the entry of a day that final_schedule holds
ComposeDay(day, run_type, r, ps, running_paces) ==
    IF run_type \in KnownRunTypes
    THEN LET target_pace == Get(running_paces, run_type, None)
             pace_minutes == IF target_pace # None THEN pace_str_to_minutes(target_pace)
                             ELSE None
             distance_factor == get_distance_factor(run_type, ps.race_phase,
                                                    ps.current_week, ps.total_weeks)
             run_distance == RRound1(RMul(ps.weekly_mileage, distance_factor))
             run_duration == IF pace_minutes # None /\ pace_minutes[1] # RInt(0)
                             THEN Some(RRound(RMul(run_distance, pace_minutes[1])))
                             ELSE None
             workout_details ==
                 IF run_type \in RestTypes THEN generate_rest_day_details(run_type)
                 ELSE generate_workout_details(run_type, ps.race_phase, ps.current_week,
                                               ps.total_weeks, r.training_distance,
                                               run_distance)
             intensity_score == calculate_intensity_score(run_type, run_distance,
                                                          pace_minutes)
         IN  [Day |-> day,
              WorkoutType |-> run_type,
              WorkoutDetails |-> workout_details,
              TargetPace |-> IF target_pace # None THEN target_pace \o <<" per km">>
                             ELSE None,
              Duration |-> run_duration,
              Distance |-> IF run_type \notin RestTypes THEN Some(run_distance) ELSE None,
              IntensityScore |-> IF run_type \notin RestTypes THEN intensity_score ELSE 0]
    ELSE [Day |-> day,
          WorkoutType |-> run_type,
          WorkoutDetails |-> [template |-> "Workout details not available.",
                              km |-> None, mid |-> None],
          TargetPace |-> None, Duration |-> None, Distance |-> None,
          IntensityScore |-> 0]

\* schedule.py:468-477: the entry of a day that final_schedule lacks
ComposeMissingDay(day) ==
    [Day |-> day,
     WorkoutType |-> "Rest",
     WorkoutDetails |-> generate_rest_day_details("Rest"),
     TargetPace |-> None, Duration |-> None, Distance |-> None,
     IntensityScore |-> 0]

RECURSIVE SumIntensity(_)
SumIntensity(entries) ==
    IF Len(entries) = 0 THEN 0
    ELSE entries[1].IntensityScore + SumIntensity(Tail(entries))

\* schedule.py:430-431: the workout type of every day of the week
AssignDays(race_phase, current_week, total_weeks, run_days, long_run_day, training_distance) ==
    improve_run_schedule_rule_based(
        generate_workout_types_rule_based_phase_aware(race_phase, current_week,
                                                      total_weeks, run_days,
                                                      training_distance),
        long_run_day, week_days, run_days)

\* BuildResponse with an entry for each running day only: the loop of
\* schedule.py:435 over running_days for week_days.
BuildResponse_RunningDaysOnly(r, ps, prediction_seconds) ==
    LET race_prediction == seconds_to_time_str(RInt(prediction_seconds))
        running_paces == calculate_running_paces(race_prediction, r.training_distance)
        running_days == get_run_days_simple(week_days, r.run_days, r.long_run_day)
        final_schedule ==
            AssignDays(ps.race_phase, ps.current_week, ps.total_weeks, r.run_days,
                       r.long_run_day, r.training_distance)
        schedule ==
            [i \in DOMAIN running_days |->
                ComposeDay(running_days[i], final_schedule[running_days[i]], r, ps,
                           running_paces)]
    IN  [schedule |-> schedule,
         summary |-> [weeklyMileage |-> RRound1(ps.weekly_mileage),
                      weeklyIntensity |-> SumIntensity(schedule),
                      currentWeek |-> ps.current_week,
                      totalWeeks |-> ps.total_weeks,
                      racePhase |-> ps.race_phase,
                      weeksUntilRace |-> ps.weeks_until_race]]

\* schedule.py:425-491: full_response, for a prediction that is present
BuildResponse(r, ps, prediction_seconds) ==
    LET race_prediction == seconds_to_time_str(RInt(prediction_seconds))
        running_paces == calculate_running_paces(race_prediction, r.training_distance)
        running_days == get_run_days_simple(week_days, r.run_days, r.long_run_day)
        final_schedule ==
            AssignDays(ps.race_phase, ps.current_week, ps.total_weeks, r.run_days,
                       r.long_run_day, r.training_distance)
        schedule ==
            [i \in DOMAIN week_days |->
                IF week_days[i] \in DOMAIN final_schedule
                THEN ComposeDay(week_days[i], final_schedule[week_days[i]], r, ps,
                                running_paces)
                ELSE ComposeMissingDay(week_days[i])]
    IN  [schedule |-> schedule,
         summary |-> [weeklyMileage |-> RRound1(ps.weekly_mileage),
                      weeklyIntensity |-> SumIntensity(schedule),
                      currentWeek |-> ps.current_week,
                      totalWeeks |-> ps.total_weeks,
                      racePhase |-> ps.race_phase,
                      weeksUntilRace |-> ps.weeks_until_race]]

\* schedule.py:494-505 and models.py:47: the row added for full_response at time t.
\* json.loads(json.dumps(x)) = x for the strings and numbers of a response, so
\* schedule_json holds the response itself.
NewCacheRow(fp, full_response, t) ==
    [race_date |-> fp.race_date,
     training_distance |-> fp.training_distance,
     race_phase |-> fp.race_phase,
     run_days |-> fp.run_days,
     long_run_day |-> fp.long_run_day,
     current_mileage |-> fp.current_mileage,
     experience_level |-> fp.experience_level,
     training_goal |-> fp.training_goal,
     schedule_json |-> full_response,
     timestamp |-> t]

\* An upsert: the rows of the same key are replaced by the new row.
InsertRow_Upsert(cache, row) ==
    Append(SelectSeq(cache, LAMBDA old : RowKey(old) # RowKey(row)), row)

\* schedule.py:506-507: db.session.add(new_cache); db.session.commit()
InsertRow(cache, row) == Append(cache, row)

----------------------------------------------------------------------------
\* Bounds of the model.

\* The clock stops at MaxNow hours.
MaxNow == 24

\* Requests that would add a row are not sent once the table holds MaxRows rows.
MaxRows == 2

\* The clock advances in steps of TickHours.
TickHours == 12

\* The request bodies sent to the endpoint: a base request and variations of it.
BaseRequest ==
    [runDays |-> 4, longRunDay |-> "saturday", trainingDistance |-> "5K",
     raceDate |-> "2026-02-13", racePhase |-> "Auto"]

Requests ==
    {BaseRequest}
    \cup {[BaseRequest EXCEPT !.runDays = n] : n \in {0, 8}}
    \cup {[BaseRequest EXCEPT !.longRunDay = d] : d \in {"funday"}}
    \cup {[BaseRequest EXCEPT !.raceDate = d] : d \in {"13/02/2026"}}
    \cup {[BaseRequest EXCEPT !.racePhase = p] : p \in {"sprint"}}
    \cup {[BaseRequest EXCEPT !.trainingDistance = d] : d \in {"15K"}}
    \cup {[runDays |-> 4, longRunDay |-> "Saturday", trainingDistance |-> "5K",
           raceDate |-> "2026-02-13"]}
    \cup {[BaseRequest EXCEPT !.raceDate = "2026-02-12", !.racePhase = "BUILD"]
           @@ [currentMileage |-> RInt(30)]}

\* What batch_fetch_garmin_data returns under 'race_predictions': for each key
\* Some(seconds), or None when the key is absent.
AllPredictions ==
    [time5K |-> Some(1320), time10K |-> Some(2760), timeHalfMarathon |-> Some(6120),
     timeMarathon |-> Some(12900)]

RaceDataValues == {AllPredictions, [AllPredictions EXCEPT !.time5K = None]}

----------------------------------------------------------------------------
\* State: now is datetime.utcnow() in hours; race_data is what the Garmin fetch
\* returns; schedule_cache is the ScheduleCache table in insertion (id) order;
\* request and response are the last request body and what was returned for it:
\* the HTTP status, the JSON body and, in ran, the steps of the handler that ran.

NoCall == [fn |-> "none"]

Init ==
    /\ now = 0
    /\ race_data = AllPredictions
    /\ schedule_cache = <<>>
    /\ request = BaseRequest
    /\ response = [status |-> 0, body |-> [error |-> "no request yet"], ran |-> <<>>]
    /\ call = NoCall

Reply(status, body, ran) == [status |-> status, body |-> body, ran |-> ran]

\* schedule.py:353
MissingFieldsReply ==
    Reply(400, [error |-> "runDays, longRunDay, trainingDistance, raceDate, and racePhase are required"],
          <<>>)

\* schedule.py:366
InvalidLongRunDayReply == Reply(400, [error |-> "Invalid longRunDay."], <<>>)

\* schedule.py:372
InvalidRaceDateReply == Reply(400, [error |-> "Invalid raceDate format. Use YYYY-MM-DD."], <<>>)

\* schedule.py:423
NoPredictionReply ==
    Reply(404, [error |-> "Race prediction data not found"], <<"cache_query", "garmin_fetch">>)

\* The endpoint writing the row again, with a new timestamp, when the cache
\* answers.
generate_schedule_endpoint_RefreshOnHit(data) ==
    /\ request' = data
    /\ UNCHANGED <<now, race_data, call>>
    /\ IF ~HasRequiredFields(data)
       THEN response' = MissingFieldsReply /\ UNCHANGED schedule_cache
       ELSE LET r == ReadRequest(data)
            IN  IF ~ValidLongRunDay(r.long_run_day)
                THEN response' = InvalidLongRunDayReply /\ UNCHANGED schedule_cache
                ELSE IF ~ValidRaceDate(r.race_date)
                THEN response' = InvalidRaceDateReply /\ UNCHANGED schedule_cache
                ELSE LET ps == PhaseState(r, Today(now))
                         fp == Fingerprint(r, ps)
                         found == CacheLookup(schedule_cache, fp)
                         prediction_seconds == PredictionSeconds(race_data, r.training_distance)
                     IN  IF found # {} /\ \A i \in found : IsFresh(schedule_cache[i], now)
                         THEN \E i \in found :
                                 /\ response' = Reply(200, schedule_cache[i].schedule_json,
                                                      <<"cache_query">>)
                                 /\ schedule_cache' =
                                       IF Len(schedule_cache) < MaxRows
                                       THEN InsertRow(schedule_cache,
                                                      NewCacheRow(fp, schedule_cache[i].schedule_json, now))
                                       ELSE schedule_cache
                         ELSE IF prediction_seconds = None
                         THEN response' = NoPredictionReply /\ UNCHANGED schedule_cache
                         ELSE LET full_response == BuildResponse(r, ps, prediction_seconds[1])
                              IN  /\ Len(schedule_cache) < MaxRows
                                  /\ schedule_cache' =
                                        InsertRow(schedule_cache,
                                                  NewCacheRow(fp, full_response, now))
                                  /\ response' =
                                        Reply(200, full_response,
                                              <<"cache_query", "garmin_fetch", "compute",
                                                "cache_insert">>)

\* schedule.py:346-509: POST /api/schedule with the body data
generate_schedule_endpoint(data) ==
    /\ request' = data
    /\ UNCHANGED <<now, race_data, call>>
    /\ IF ~HasRequiredFields(data)
       THEN response' = MissingFieldsReply /\ UNCHANGED schedule_cache
       ELSE LET r == ReadRequest(data)
            IN  IF ~ValidLongRunDay(r.long_run_day)
                THEN response' = InvalidLongRunDayReply /\ UNCHANGED schedule_cache
                ELSE IF ~ValidRaceDate(r.race_date)
                THEN response' = InvalidRaceDateReply /\ UNCHANGED schedule_cache
                ELSE LET ps == PhaseState(r, Today(now))
                         fp == Fingerprint(r, ps)
                         found == CacheLookup(schedule_cache, fp)
                         prediction_seconds == PredictionSeconds(race_data, r.training_distance)
                     IN  IF found # {} /\ \A i \in found : IsFresh(schedule_cache[i], now)
                         THEN /\ \E i \in found :
                                    response' = Reply(200, schedule_cache[i].schedule_json,
                                                      <<"cache_query">>)
                              /\ UNCHANGED schedule_cache
                         ELSE IF prediction_seconds = None
                         THEN response' = NoPredictionReply /\ UNCHANGED schedule_cache
                         ELSE LET full_response == BuildResponse(r, ps, prediction_seconds[1])
                              IN  /\ Len(schedule_cache) < MaxRows
                                  /\ schedule_cache' =
                                        InsertRow(schedule_cache,
                                                  NewCacheRow(fp, full_response, now))
                                  /\ response' =
                                        Reply(200, full_response,
                                              <<"cache_query", "garmin_fetch", "compute",
                                                "cache_insert">>)

Request == \E data \in Requests : generate_schedule_endpoint(data)

\* Time passes.
Tick ==
    /\ now + TickHours <= MaxNow
    /\ now' = now + TickHours
    /\ UNCHANGED <<race_data, schedule_cache, request, response, call>>

\* The race predictions the Garmin account offers change.
UpstreamChange ==
    /\ race_data' \in RaceDataValues \ {race_data}
    /\ UNCHANGED <<now, schedule_cache, request, response, call>>

Next == Request \/ Tick \/ UpstreamChange

Spec == Init /\ [][Next]_vars

----------------------------------------------------------------------------
\* The day assignment on its own: every (phase, runDays, longRunDay) is drawn
\* and AssignDays is applied to it.

RacePhases == {"base", "build", "peak", "taper"}

\* runDays as the endpoint passes it on: 1..7 and, unchecked, 0 and 8
AssignRunDays == 0..8

AssignCalls ==
    {[fn |-> "AssignDays", race_phase |-> p, run_days |-> n, long_run_day |-> d,
      done |-> FALSE, week |-> <<>>] :
        p \in RacePhases \cup {"sprint"}, n \in AssignRunDays, d \in Range(week_days)}

InitAssign ==
    /\ now = 0
    /\ race_data = AllPredictions
    /\ schedule_cache = <<>>
    /\ request = BaseRequest
    /\ response = [status |-> 0, body |-> [error |-> "no request yet"], ran |-> <<>>]
    /\ call \in AssignCalls

Assign ==
    /\ call.fn = "AssignDays"
    /\ ~call.done
    /\ call' = [call EXCEPT
                  !.done = TRUE,
                  !.week = AssignDays(call.race_phase, 1, 12, call.run_days,
                                      call.long_run_day, "5K")]
    /\ UNCHANGED <<now, race_data, schedule_cache, request, response>>

NextAssign == Assign

SpecAssign == InitAssign /\ [][NextAssign]_vars

DaysOfType(week, type) == {d \in DOMAIN week : week[d] = type}

\* C1: for runDays in 1..7, every long-run weekday and every race phase, the
\* assigned week has one entry per weekday (7 entries), exactly one LongRun
\* and exactly 7 - runDays Rest entries.
C1_WeekShape ==
    (call.done /\ call.run_days \in 1..7 /\ call.race_phase \in RacePhases)
        => /\ DOMAIN call.week = Range(week_days)
           /\ Cardinality(DOMAIN call.week) = 7
           /\ Cardinality(DaysOfType(call.week, "LongRun")) = 1
           /\ Cardinality(DaysOfType(call.week, "Rest")) = 7 - call.run_days

\* A week assigned for 3 run days in the peak phase with the long run on
\* Friday: four Rest days, beyond the preferred Monday.
C1_Witness ==
    /\ call.done
    /\ call.run_days = 3
    /\ call.race_phase = "peak"
    /\ call.long_run_day = "Friday"
    /\ Cardinality(DaysOfType(call.week, "Rest")) = 4
    /\ call.week["Monday"] = "Rest"

\* C2: the long-run day carries LongRun in every assigned week, whatever
\* rest days are chosen and whatever workouts are placed or padded.
C2_LongRunDayKept ==
    call.done =>
        /\ call.long_run_day \in DOMAIN call.week
        /\ call.week[call.long_run_day] = "LongRun"

\* The long run on Monday, the first preferred rest day, with rest days needed.
C2_Witness ==
    /\ call.done
    /\ call.long_run_day = "Monday"
    /\ call.run_days = 2
    /\ call.week["Monday"] = "LongRun"
    /\ call.week["Friday"] = "Rest"

----------------------------------------------------------------------------
\* Two requests computed without the cache on the same day with the same
\* race predictions, next to their fingerprints.

\* schedule.py:355-398: the key the request data is looked up and stored under
RequestFingerprint(data, today) ==
    LET r == ReadRequest(data)
    IN  Fingerprint(r, PhaseState(r, today))

\* schedule.py:355-387 and 404-491: the body returned for the valid request data
\* when no cache row answers it
FreshBody(data, today, predictions) ==
    LET r == ReadRequest(data)
        prediction_seconds == PredictionSeconds(predictions, r.training_distance)
    IN  IF prediction_seconds = None THEN NoPredictionReply.body
        ELSE BuildResponse(r, PhaseState(r, today), prediction_seconds[1])

PairRequests ==
    {[runDays |-> n, longRunDay |-> d, trainingDistance |-> "5K", raceDate |-> date,
      racePhase |-> p] @@ optional :
        n \in {3, 4},
        d \in {"saturday", "Saturday"},
        date \in {"2026-02-13", "2025-12-20"},
        p \in {"Auto", "build", "peak"},
        optional \in {[experienceLevel |-> "intermediate"],
                      [currentMileage |-> RInt(21)]}}

PairDays == {0, 2}

PairPredictions == {AllPredictions, [AllPredictions EXCEPT !.time5K = Some(1500)]}

PairCalls ==
    {[fn |-> "Pair", a |-> a, b |-> b, today |-> t, predictions |-> ps, done |-> FALSE,
      fp_a |-> None, fp_b |-> None, out_a |-> None, out_b |-> None] :
        a \in PairRequests, b \in PairRequests, t \in PairDays, ps \in PairPredictions}

InitPair ==
    /\ now = 0
    /\ race_data = AllPredictions
    /\ schedule_cache = <<>>
    /\ request = BaseRequest
    /\ response = [status |-> 0, body |-> [error |-> "no request yet"], ran |-> <<>>]
    /\ call \in PairCalls

ComputePair ==
    /\ call.fn = "Pair"
    /\ ~call.done
    /\ call' = [call EXCEPT
                  !.done = TRUE,
                  !.fp_a = RequestFingerprint(call.a, call.today),
                  !.fp_b = RequestFingerprint(call.b, call.today),
                  !.out_a = FreshBody(call.a, call.today, call.predictions),
                  !.out_b = FreshBody(call.b, call.today, call.predictions)]
    /\ UNCHANGED <<now, race_data, schedule_cache, request, response>>

NextPair == ComputePair

SpecPair == InitPair /\ [][NextPair]_vars

\* C10: two requests whose fingerprints are equal produce, computed without the
\* cache on the same day and from the same race predictions, the same schedule
\* and summary.
C10_FingerprintDetermines ==
    (call.done /\ call.fp_a = call.fp_b) => call.out_a = call.out_b

\* Two different request bodies with one fingerprint: the phase left to "auto"
\* against the phase named, the mileage left out against the mileage given.
C10_Witness ==
    /\ call.done
    /\ call.fp_a = call.fp_b
    /\ call.a.racePhase = "Auto"
    /\ call.b.racePhase = "build"
    /\ call.a.longRunDay # call.b.longRunDay
    /\ "currentMileage" \notin DOMAIN call.a
    /\ "currentMileage" \in DOMAIN call.b
    /\ "schedule" \in DOMAIN call.out_a
    /\ call.out_a = call.out_b

----------------------------------------------------------------------------
\* Properties of the endpoint.

Handled == response.status # 0

HasSchedule(body) == "schedule" \in DOMAIN body

\* A body the endpoint does not reject: the required fields, a weekday and an
\* ISO date.
WellFormed(data) ==
    /\ required_fields \subseteq DOMAIN data
    /\ Capitalize(data.longRunDay) \in Range(week_days)
    /\ data.raceDate \in IsoDates

\* The upstream offers no prediction for the distance of the request.
NoPredictionFor(data) ==
    \/ data.trainingDistance = "5K" /\ race_data.time5K = None
    \/ data.trainingDistance = "10K" /\ race_data.time10K = None
    \/ data.trainingDistance = "HalfMarathon" /\ race_data.timeHalfMarathon = None
    \/ data.trainingDistance = "Marathon" /\ race_data.timeMarathon = None
    \/ data.trainingDistance \notin {"5K", "10K", "HalfMarathon", "Marathon"}

\* The id of the row written last for the key fp, 0 when there is none.
LastWritten(cache, fp) ==
    LET matching == {i \in DOMAIN cache : RowKey(cache[i]) = fp}
    IN  IF matching = {} THEN 0
        ELSE CHOOSE i \in matching : \A j \in matching : j <= i

\* The row written last for the request is less than 24 hours old.
FreshRowFor(data) ==
    LET i == LastWritten(schedule_cache, RequestFingerprint(data, Today(now)))
    IN  i # 0 /\ now - schedule_cache[i].timestamp < 24

\* A step of the endpoint: the clock and the upstream stand still.
RequestStep == UNCHANGED <<now, race_data>>

\* C3, as claimed: a valid request made while the upstream has no prediction
\* for its distance fails with the race-prediction error and returns no
\* schedule, whatever was served before.
C3_NoPredictionAlwaysFails ==
    [][(RequestStep /\ WellFormed(request') /\ NoPredictionFor(request'))
          => (response'.status = 404 /\ ~HasSchedule(response'.body))]_vars

\* C3, amended: a valid request made while the upstream has no prediction for
\* its distance and no row younger than 24 hours is cached for its
\* fingerprint fails with the race-prediction error, returns no schedule and
\* stores none.
C3_NoPredictionFailsOnMiss ==
    [][(/\ RequestStep
        /\ WellFormed(request')
        /\ NoPredictionFor(request')
        /\ ~FreshRowFor(request'))
          => /\ response'.status = 404
             /\ response'.body = [error |-> "Race prediction data not found"]
             /\ schedule_cache' = schedule_cache]_vars

\* The base request fails for want of a prediction although a row, by now 24
\* hours old, is cached for it.
C3_Witness ==
    /\ response.status = 404
    /\ request = BaseRequest
    /\ race_data.time5K = None
    /\ now = 24
    /\ LastWritten(schedule_cache, RequestFingerprint(request, Today(now))) # 0

\* C4, as claimed: a request whose runDays is below 1 or above 7 is rejected
\* with a configuration error before anything is computed, and no schedule
\* is returned or cached for it.
C4_RunDaysRangeRejected ==
    (Handled /\ HasRequiredFields(request) /\ request.runDays \notin 1..7)
        => /\ response.status = 400
           /\ response.ran = <<>>
           /\ ~HasSchedule(response.body)
           /\ \A i \in DOMAIN schedule_cache : schedule_cache[i].run_days \in 1..7

\* C5: a response either is an error without a schedule or carries exactly
\* seven entries, Monday to Sunday in this order; so does every cached body.
SevenDays(body) ==
    /\ Len(body.schedule) = 7
    /\ \A i \in 1..7 : body.schedule[i].Day = week_days[i]

C5_AllSevenOrNone ==
    /\ Handled =>
          IF HasSchedule(response.body)
          THEN response.status = 200 /\ SevenDays(response.body)
          ELSE response.status \in {400, 404} /\ DOMAIN response.body = {"error"}
    /\ \A i \in DOMAIN schedule_cache : SevenDays(schedule_cache[i].schedule_json)

\* Seven entries for runDays = 0, answered from the cache.
C5_Witness ==
    /\ response.status = 200
    /\ request.runDays = 0
    /\ response.ran = <<"cache_query">>
    /\ SevenDays(response.body)

\* C6: a request with an unrecognized longRunDay or a malformed raceDate is
\* answered 400 with no step run: no cache query, no upstream fetch, no
\* schedule computed, none returned, none stored.
C6_RejectedBeforeCacheAndFetch ==
    /\ (/\ Handled
        /\ HasRequiredFields(request)
        /\ \/ Capitalize(request.longRunDay) \notin Range(week_days)
           \/ request.raceDate \notin IsoDates)
          => /\ response.status = 400
             /\ response.ran = <<>>
             /\ ~HasSchedule(response.body)
    /\ \A i \in DOMAIN schedule_cache :
          /\ schedule_cache[i].long_run_day \in Range(week_days)
          /\ schedule_cache[i].race_date \in IsoDates

\* The malformed date rejected while the table holds rows.
C6_Witness ==
    /\ response.status = 400
    /\ request.raceDate = "13/02/2026"
    /\ response.ran = <<>>
    /\ Len(schedule_cache) > 0

\* C7, as claimed: a request whose racePhase is none of base, build, peak,
\* taper, auto or whose trainingDistance is none of 5K, 10K, HalfMarathon,
\* Marathon is rejected and produces no schedule.
C7_UnknownPhaseOrDistanceRejected ==
    (/\ Handled
     /\ HasRequiredFields(request)
     /\ \/ Lower(request.racePhase) \notin RacePhases \cup {"auto"}
        \/ request.trainingDistance \notin {"5K", "10K", "HalfMarathon", "Marathon"})
        => /\ response.status # 200
           /\ ~HasSchedule(response.body)

\* C8: a request is answered from the cache exactly when the row written last
\* for its fingerprint is less than 24 hours old; otherwise it takes the miss
\* path, where a schedule that is returned was computed now and is stored in
\* a new row, and a failure is the missing race prediction.
C8_FreshFor24Hours ==
    [][RequestStep =>
          IF WellFormed(request') /\ FreshRowFor(request')
          THEN LET i == LastWritten(schedule_cache,
                                    RequestFingerprint(request', Today(now)))
               IN  /\ response'.ran = <<"cache_query">>
                   /\ response'.status = 200
                   /\ response'.body = schedule_cache[i].schedule_json
                   /\ schedule_cache' = schedule_cache
          ELSE /\ response'.ran # <<"cache_query">>
               /\ (WellFormed(request') /\ response'.status = 200) =>
                     /\ response'.body =
                           FreshBody(request', Today(now), race_data)
                     /\ Len(schedule_cache') = Len(schedule_cache) + 1
                     /\ schedule_cache'[Len(schedule_cache')].timestamp = now
                     /\ RowKey(schedule_cache'[Len(schedule_cache')]) =
                           RequestFingerprint(request', Today(now))
               /\ (WellFormed(request') /\ response'.status # 200) =>
                     /\ response'.status = 404
                     /\ NoPredictionFor(request')
                     /\ schedule_cache' = schedule_cache]_vars

\* A row of exactly 24 hours was not used: the schedule was computed again and
\* stored in a second row of the same key.
C8_Witness ==
    /\ Len(schedule_cache) = 2
    /\ RowKey(schedule_cache[1]) = RowKey(schedule_cache[2])
    /\ schedule_cache[2].timestamp - schedule_cache[1].timestamp = 24
    /\ now = 24
    /\ response.ran = <<"cache_query", "garmin_fetch", "compute", "cache_insert">>
    /\ response.body = schedule_cache[2].schedule_json

\* C9: the table only grows, by one row per freshly computed schedule, the
\* rows already there staying as they are; and a request answered from the
\* cache gets the body of the row written last for its fingerprint.
C9_AppendOnlyLatestWins ==
    [][/\ \/ schedule_cache' = schedule_cache
          \/ /\ Len(schedule_cache') = Len(schedule_cache) + 1
             /\ SubSeq(schedule_cache', 1, Len(schedule_cache)) = schedule_cache
             /\ response'.status = 200
             /\ response'.ran = <<"cache_query", "garmin_fetch", "compute", "cache_insert">>
             /\ schedule_cache'[Len(schedule_cache')].schedule_json = response'.body
             /\ schedule_cache'[Len(schedule_cache')].timestamp = now
       /\ (RequestStep /\ response'.ran = <<"cache_query">>) =>
             LET i == LastWritten(schedule_cache,
                                  RequestFingerprint(request', Today(now)))
             IN  i # 0 /\ response'.body = schedule_cache[i].schedule_json]_vars

\* Two rows of one key with different bodies, and the later one returned.
C9_Witness ==
    /\ Len(schedule_cache) = 2
    /\ RowKey(schedule_cache[1]) = RowKey(schedule_cache[2])
    /\ schedule_cache[1].schedule_json # schedule_cache[2].schedule_json
    /\ response.ran = <<"cache_query">>
    /\ response.body = schedule_cache[2].schedule_json

----------------------------------------------------------------------------
\* One request planned and computed without the cache: every distance, phase,
\* experience level and goal, with and without a mileage, on days that put the
\* race from MaxPlanWeeks weeks ahead to a week and a day behind.

\* The race of the planned requests is at most MaxPlanWeeks weeks ahead.
MaxPlanWeeks == 12

PlanRaceDate == "2026-03-26"

TrainingDistances == {"5K", "10K", "HalfMarathon", "Marathon"}

ExperienceLevels == {"beginner", "intermediate", "advanced"}

TrainingGoals == {"finish", "pr", "compete"}

PlanRequests ==
    {[runDays |-> 4, longRunDay |-> "Saturday", trainingDistance |-> dist,
      raceDate |-> PlanRaceDate, racePhase |-> p, experienceLevel |-> e,
      trainingGoal |-> g] @@ optional :
        dist \in TrainingDistances,
        p \in RacePhases \cup {"auto"},
        e \in ExperienceLevels,
        g \in TrainingGoals,
        optional \in {<<>>, [currentMileage |-> RInt(30)]}}

\* date.today() on the day of the request: the first two days of each week
PlanDays ==
    {d \in (fromisoformat(PlanRaceDate) - 7 * MaxPlanWeeks)
             .. (fromisoformat(PlanRaceDate) + 8) :
        (fromisoformat(PlanRaceDate) - d) % 7 \in {0, 6}}

PlanCalls ==
    {[fn |-> "Plan", data |-> data, today |-> t, done |-> FALSE, ps |-> None,
      default_mileage |-> None, phase_multiplier |-> None, out |-> None] :
        data \in PlanRequests, t \in PlanDays}

InitPlan ==
    /\ now = 0
    /\ race_data = AllPredictions
    /\ schedule_cache = <<>>
    /\ request = BaseRequest
    /\ response = [status |-> 0, body |-> [error |-> "no request yet"], ran |-> <<>>]
    /\ call \in PlanCalls

\* schedule.py:355-387 and 404-491 for a request with a valid day and date
Plan ==
    /\ call.fn = "Plan"
    /\ ~call.done
    /\ LET r == ReadRequest(call.data)
           ps == PhaseState(r, call.today)
       IN  call' = [call EXCEPT
                      !.done = TRUE,
                      !.ps = ps,
                      !.default_mileage =
                          get_default_weekly_mileage(r.training_distance,
                                                     r.experience_level, r.training_goal),
                      !.phase_multiplier =
                          calculate_phase_multiplier(ps.race_phase, ps.current_week,
                                                     ps.total_weeks),
                      !.out = FreshBody(call.data, call.today, race_data)]
    /\ UNCHANGED <<now, race_data, schedule_cache, request, response>>

NextPlan == Plan

SpecPlan == InitPlan /\ [][NextPlan]_vars

\* Days from the day of the call to the race
PlanDaysLeft == fromisoformat(call.data.raceDate) - call.today

\* C11: with racePhase auto the phase is a function of weeksUntilRace alone and
\* every week count falls in exactly one bucket: more than 10 base, 6 to 10
\* build, 3 to 5 peak, fewer than 3 taper.
C11_AutoPhaseBuckets ==
    (call.fn = "Plan" /\ call.done /\ call.data.racePhase = "auto") =>
        LET w == call.ps.weeks_until_race
            buckets == {<<"base", w > 10>>, <<"build", 6 <= w /\ w <= 10>>,
                        <<"peak", 3 <= w /\ w <= 5>>, <<"taper", w < 3>>}
        IN  /\ w >= 0
            /\ Cardinality({b \in buckets : b[2]}) = 1
            /\ <<call.ps.race_phase, TRUE>> \in buckets
            /\ call.out.summary.racePhase = call.ps.race_phase

\* The four boundaries: a marathon 10 weeks out is build, and the witnesses of
\* the other edges are the same request 11, 6, 5, 3 and 2 weeks out.
C11_Witness ==
    /\ call.fn = "Plan" /\ call.done
    /\ call.data.racePhase = "auto"
    /\ call.data.trainingDistance = "Marathon"
    /\ call.ps.weeks_until_race = 10
    /\ call.out.summary.racePhase = "build"

\* C12: weeksUntilRace is the floor of the days to the race over 7, and 0 when
\* the race date is past; a past race date is answered with a schedule, with
\* weeksUntilRace 0 and, for racePhase auto, the taper phase.
C12_WeeksClamped ==
    (call.fn = "Plan" /\ call.done) =>
        LET w == call.ps.weeks_until_race
        IN  /\ PlanDaysLeft >= 0 => (7 * w <= PlanDaysLeft /\ PlanDaysLeft < 7 * w + 7)
            /\ PlanDaysLeft < 0 =>
                  /\ w = 0
                  /\ "schedule" \in DOMAIN call.out
                  /\ call.out.summary.weeksUntilRace = 0
                  /\ call.data.racePhase = "auto" => call.out.summary.racePhase = "taper"

\* A race 8 days past, phase auto: a taper week is returned.
C12_Witness ==
    /\ call.fn = "Plan" /\ call.done
    /\ PlanDaysLeft = -8
    /\ call.data.racePhase = "auto"
    /\ Len(call.out.schedule) = 7
    /\ call.out.summary.weeksUntilRace = 0
    /\ call.out.summary.racePhase = "taper"

\* C13: totalWeeks is round(baseLength x experienceMultiplier), currentWeek is
\* max(1, totalWeeks - weeksUntilRace), and so 1 <= currentWeek <= totalWeeks
\* in every summary returned.
C13_CurrentWeekInPlan ==
    (call.fn = "Plan" /\ call.done /\ "summary" \in DOMAIN call.out) =>
        LET baseLength == [d \in TrainingDistances |->
                              CASE d = "5K" -> 12 [] d = "10K" -> 16
                                [] d = "HalfMarathon" -> 20 [] d = "Marathon" -> 24]
            experienceMultiplier == [e \in ExperienceLevels |->
                                        IF e = "advanced" THEN Rat(9, 10) ELSE RInt(1)]
            sm == call.out.summary
        IN  /\ sm.totalWeeks =
                  RRound(RMul(RInt(baseLength[call.data.trainingDistance]),
                              experienceMultiplier[call.data.experienceLevel]))
            /\ sm.currentWeek = IF sm.totalWeeks - sm.weeksUntilRace >= 1
                                THEN sm.totalWeeks - sm.weeksUntilRace ELSE 1
            /\ 1 <= sm.currentWeek
            /\ sm.currentWeek <= sm.totalWeeks

\* An advanced 5K runner (an 11-week plan, round(10.8)) 12 weeks before the
\* race: totalWeeks - weeksUntilRace is -1 and currentWeek is 1.
C13_Witness ==
    /\ call.fn = "Plan" /\ call.done
    /\ call.data.trainingDistance = "5K"
    /\ call.data.experienceLevel = "advanced"
    /\ call.out.summary.totalWeeks = 11
    /\ call.out.summary.weeksUntilRace = 12
    /\ call.out.summary.currentWeek = 1

\* C14: the weekly mileage is the caller's currentMileage when it is given, and
\* otherwise defaultMileage x phaseMultiplier x microcycleMultiplier, the last
\* being 0.8 when currentWeek mod 4 = 0, 1.1 when it is 3, and 1.0 otherwise.
C14_WeeklyMileage ==
    (call.fn = "Plan" /\ call.done) =>
        LET cw == call.ps.current_week
            microcycle == IF cw % 4 = 0 THEN Rat(8, 10)
                          ELSE IF cw % 4 = 3 THEN Rat(11, 10) ELSE RInt(1)
            expected == IF "currentMileage" \in DOMAIN call.data
                        THEN call.data.currentMileage
                        ELSE RMul(RMul(call.default_mileage, call.phase_multiplier),
                                  microcycle)
        IN  /\ call.ps.weekly_mileage = expected
            /\ call.out.summary.weeklyMileage = RRound1(expected)

\* A 10K week 8 of 16 (deload) without a mileage: 25 x 1.05 x 0.8 = 21 km; the
\* witness of the given mileage is the same request with currentMileage 30.
C14_Witness ==
    /\ call.fn = "Plan" /\ call.done
    /\ "currentMileage" \notin DOMAIN call.data
    /\ call.data.trainingDistance = "10K"
    /\ call.data.experienceLevel = "intermediate"
    /\ call.data.trainingGoal = "pr"
    /\ call.ps.race_phase = "build"
    /\ call.ps.current_week = 8
    /\ call.ps.weekly_mileage = RInt(21)
    /\ call.out.summary.weeklyMileage = RInt(21)

\* C15: the default weekly mileage is baseMileage x experienceFactor x
\* goalFactor with baseMileage 5K 40, 10K 56, HalfMarathon 72, Marathon 88,
\* experienceFactor beginner 0.8, intermediate 1.0, advanced 1.2 and
\* goalFactor finish 0.9, pr 1.0, compete 1.1.
C15_DefaultMileageTable ==
    (call.fn = "Plan" /\ call.done) =>
        LET baseMileage == [d \in TrainingDistances |->
                               CASE d = "5K" -> 40 [] d = "10K" -> 56
                                 [] d = "HalfMarathon" -> 72 [] d = "Marathon" -> 88]
            experienceFactor == [e \in ExperienceLevels |->
                                    CASE e = "beginner" -> Rat(8, 10)
                                      [] e = "intermediate" -> RInt(1)
                                      [] e = "advanced" -> Rat(12, 10)]
            goalFactor == [g \in TrainingGoals |->
                              CASE g = "finish" -> Rat(9, 10)
                                [] g = "pr" -> RInt(1)
                                [] g = "compete" -> Rat(11, 10)]
        IN  call.default_mileage =
                RMul(RMul(RInt(baseMileage[call.data.trainingDistance]),
                          experienceFactor[call.data.experienceLevel]),
                     goalFactor[call.data.trainingGoal])

\* C16 as the claim states it: base 0.8 + 0.2 (w / 0.3T), build
\* 0.9 + 0.3 ((w - 0.3T) / 0.5T), peak 1.1 + 0.1 ((w - 0.8T) / 0.1T), taper
\* 1.2 - 0.4 ((w - 0.9T) / 0.1T), for week w of a plan of T weeks.
C16_PhaseMultiplierRamps ==
    (call.fn = "Plan" /\ call.done) =>
        LET w == RInt(call.ps.current_week)
            T == RInt(call.ps.total_weeks)
            ramp(from, slope, start, length) ==
                RAdd(from, RMul(slope, RDiv(RSub(w, RMul(start, T)), RMul(length, T))))
        IN  call.phase_multiplier =
                CASE call.ps.race_phase = "base" ->
                        ramp(Rat(8, 10), Rat(2, 10), RInt(0), Rat(3, 10))
                  [] call.ps.race_phase = "build" ->
                        ramp(Rat(9, 10), Rat(3, 10), Rat(3, 10), Rat(5, 10))
                  [] call.ps.race_phase = "peak" ->
                        ramp(Rat(11, 10), Rat(1, 10), Rat(8, 10), Rat(1, 10))
                  [] call.ps.race_phase = "taper" ->
                        ramp(Rat(12, 10), Rat(-4, 10), Rat(9, 10), Rat(1, 10))

\* C16, amended: the phase multiplier is the unclamped function of week w and
\* plan length T: base 0.8 + 0.2 w/T, build 1.0 + 0.1 w/T, peak the constant
\* 1.1, taper 1.0 - 0.4 w/T.
C16_PhaseMultiplierLinear ==
    (call.fn = "Plan" /\ call.done) =>
        LET w == call.ps.current_week
            T == call.ps.total_weeks
        IN  call.phase_multiplier =
                CASE call.ps.race_phase = "base" -> Rat(8 * T + 2 * w, 10 * T)
                  [] call.ps.race_phase = "build" -> Rat(10 * T + w, 10 * T)
                  [] call.ps.race_phase = "peak" -> Rat(11, 10)
                  [] call.ps.race_phase = "taper" -> Rat(10 * T - 4 * w, 10 * T)

\* The last week of a taper: the multiplier is 0.6, below every other phase.
C16_Witness ==
    /\ call.fn = "Plan" /\ call.done
    /\ call.ps.race_phase = "taper"
    /\ call.ps.current_week = call.ps.total_weeks
    /\ call.phase_multiplier = Rat(6, 10)

RunningTypes == {"Recovery", "Easy", "Threshold", "Intervals", "LongRun"}

\* C17: every scheduled running day, of any of the five workout types, carries
\* a target pace and a duration (and so an intensity score computed from its
\* pace), never N/A.
C17_EveryRunningDayHasPace ==
    (call.fn = "Plan" /\ call.done /\ "schedule" \in DOMAIN call.out) =>
        \A i \in DOMAIN call.out.schedule :
            call.out.schedule[i].WorkoutType \in RunningTypes =>
                /\ call.out.schedule[i].TargetPace # None
                /\ call.out.schedule[i].Duration # None

\* The days of a returned schedule whose workout is type
ScheduledDays(body, type) ==
    {body.schedule[i].Day : i \in {j \in DOMAIN body.schedule :
                                     body.schedule[j].WorkoutType = type}}

\* The scenario of C20: 4 run days, long run on Saturday, 5K, race 8 weeks
\* out, phase auto, a prediction available.
C20_Scenario ==
    /\ call.fn = "Plan" /\ call.done
    /\ call.data.runDays = 4
    /\ call.data.longRunDay = "Saturday"
    /\ call.data.trainingDistance = "5K"
    /\ call.data.racePhase = "auto"
    /\ PlanDaysLeft \div 7 = 8
    /\ PredictionSeconds(race_data, "5K") # None

\* C20 as the claim states it: the scenario resolves to build and its schedule
\* has exactly one LongRun, on Saturday, exactly 2 Rest days and a Threshold day.
C20_ScenarioTwoRest ==
    C20_Scenario =>
        /\ call.out.summary.racePhase = "build"
        /\ ScheduledDays(call.out, "LongRun") = {"Saturday"}
        /\ Cardinality(ScheduledDays(call.out, "Rest")) = 2
        /\ ScheduledDays(call.out, "Threshold") # {}

\* C20, amended: the scenario resolves to build and its schedule has exactly
\* one LongRun, on Saturday, exactly 3 Rest days (7 - runDays) and a Threshold
\* day.
C20_ScenarioThreeRest ==
    C20_Scenario =>
        /\ call.out.summary.racePhase = "build"
        /\ ScheduledDays(call.out, "LongRun") = {"Saturday"}
        /\ Cardinality(ScheduledDays(call.out, "Rest")) = 3
        /\ ScheduledDays(call.out, "Threshold") # {}

\* The week of the scenario: rest on Monday, Friday and Sunday, Threshold on
\* Thursday.
C20_Witness ==
    /\ C20_Scenario
    /\ PlanDaysLeft = 56
    /\ call.data.experienceLevel = "intermediate"
    /\ call.data.trainingGoal = "pr"
    /\ "currentMileage" \notin DOMAIN call.data
    /\ ScheduledDays(call.out, "Rest") = {"Monday", "Friday", "Sunday"}
    /\ ScheduledDays(call.out, "Threshold") = {"Thursday"}
    /\ ScheduledDays(call.out, "Easy") = {"Tuesday", "Wednesday"}

----------------------------------------------------------------------------
\* The pace table of one race prediction: schedule.py:425-426 applied to a
\* prediction in seconds and a distance.

\* Predictions are swept in MaxPaceSteps steps of 5 minutes 15 seconds.
MaxPaceSteps == 16

PacePredictions == {1, 20, 99, 12900, 18000} \cup {315 * k : k \in 1..MaxPaceSteps}

PaceCalls ==
    {[fn |-> "Paces", prediction_seconds |-> p, training_distance |-> d, done |-> FALSE,
      paces |-> None] : p \in PacePredictions, d \in TrainingDistances}

InitPace ==
    /\ now = 0
    /\ race_data = AllPredictions
    /\ schedule_cache = <<>>
    /\ request = BaseRequest
    /\ response = [status |-> 0, body |-> [error |-> "no request yet"], ran |-> <<>>]
    /\ call \in PaceCalls

\* schedule.py:425-426
Paces ==
    /\ call.fn = "Paces"
    /\ ~call.done
    /\ call' = [call EXCEPT
                  !.done = TRUE,
                  !.paces = calculate_running_paces(
                                seconds_to_time_str(RInt(call.prediction_seconds)),
                                call.training_distance)]
    /\ UNCHANGED <<now, race_data, schedule_cache, request, response>>

NextPace == Paces

SpecPace == InitPace /\ [][NextPace]_vars

\* The order of characters in a time string: the digits, then the colon
CharCode(c) == IF c = ":" THEN 10 ELSE IndexOf(DigitChars, c) - 1

\* a < b for strings, as Python compares them
RECURSIVE StrLess(_, _)
StrLess(a, b) ==
    IF Len(b) = 0 THEN FALSE
    ELSE IF Len(a) = 0 THEN TRUE
    ELSE IF CharCode(a[1]) # CharCode(b[1]) THEN CharCode(a[1]) < CharCode(b[1])
    ELSE StrLess(Tail(a), Tail(b))

\* The pace types from the fastest to the slowest, each with the next
PaceOrder == {<<"Threshold", "Easy">>, <<"Easy", "LongRun">>, <<"LongRun", "Recovery">>}

\* The pace string of a type, read back as seconds
PaceSeconds(type) == time_str_to_seconds(call.paces[type])[1]

\* C18 as the claim states it: for every positive prediction and distance the
\* formatted paces are strictly ordered Threshold < Easy < LongRun < Recovery,
\* as durations and as strings compared lexicographically.
C18_PaceOrderStrict ==
    (call.fn = "Paces" /\ call.done) =>
        \A pair \in PaceOrder :
            /\ PaceSeconds(pair[1]) < PaceSeconds(pair[2])
            /\ StrLess(call.paces[pair[1]], call.paces[pair[2]])

\* C18, amended: read as durations the formatted paces are ordered
\* Threshold <= Easy <= LongRun <= Recovery for every positive prediction and
\* distance, strictly when the base pace is at least 60 seconds per km; the
\* strings compared lexicographically keep that order when they have the same
\* length.
C18_PaceOrder ==
    (call.fn = "Paces" /\ call.done) =>
        \A pair \in PaceOrder :
            /\ PaceSeconds(pair[1]) <= PaceSeconds(pair[2])
            /\ ~RLess(RInt(call.prediction_seconds),
                      RMul(RInt(60), distance_km(call.training_distance)))
                  => PaceSeconds(pair[1]) < PaceSeconds(pair[2])
            /\ Len(call.paces[pair[1]]) = Len(call.paces[pair[2]])
                  => (StrLess(call.paces[pair[1]], call.paces[pair[2]])
                         <=> PaceSeconds(pair[1]) < PaceSeconds(pair[2]))

\* A 5K predicted at 47:15: Threshold 9:49 and Easy 10:52 per km, in order as
\* durations and in the opposite order as strings.
C18_Witness ==
    /\ call.fn = "Paces" /\ call.done
    /\ call.training_distance = "5K"
    /\ call.prediction_seconds = 2835
    /\ call.paces["Threshold"] = <<"9", ":", "4", "9">>
    /\ call.paces["Easy"] = <<"1", "0", ":", "5", "2">>
    /\ PaceSeconds("Threshold") < PaceSeconds("Easy")
    /\ StrLess(call.paces["Easy"], call.paces["Threshold"])

----------------------------------------------------------------------------
\* One day composed: schedule.py:436-467 applied to a workout type, a phase, a
\* week of a plan, a weekly mileage and the pace table of a distance.

\* Days are composed for the weeks 1..MaxComposeWeek of a plan.
MaxComposeWeek == 4

ComposeMileages == {RInt(0), RInt(20), Rat(594, 25)}

ComposeCalls ==
    {[fn |-> "Compose", run_type |-> type, training_distance |-> d,
      ps |-> [race_phase |-> p, current_week |-> w, total_weeks |-> T,
              weekly_mileage |-> km],
      done |-> FALSE, entry |-> None] :
        type \in KnownRunTypes, d \in {"5K", "Marathon"}, p \in RacePhases,
        w \in 1..MaxComposeWeek, T \in {11, 24}, km \in ComposeMileages}

InitCompose ==
    /\ now = 0
    /\ race_data = AllPredictions
    /\ schedule_cache = <<>>
    /\ request = BaseRequest
    /\ response = [status |-> 0, body |-> [error |-> "no request yet"], ran |-> <<>>]
    /\ call \in ComposeCalls

\* schedule.py:425-426 and 436-467
Compose ==
    /\ call.fn = "Compose"
    /\ ~call.done
    /\ LET prediction_seconds == PredictionSeconds(race_data, call.training_distance)
           running_paces ==
               calculate_running_paces(seconds_to_time_str(RInt(prediction_seconds[1])),
                                       call.training_distance)
       IN  call' = [call EXCEPT
                      !.done = TRUE,
                      !.entry = ComposeDay("Monday", call.run_type,
                                           [training_distance |-> call.training_distance],
                                           call.ps, running_paces)]
    /\ UNCHANGED <<now, race_data, schedule_cache, request, response>>

NextCompose == Compose

SpecCompose == InitCompose /\ [][NextCompose]_vars

\* C19: a day of type Rest, Active Recovery or Strength Training is composed,
\* in every phase and week and for every weekly mileage, into an entry of that
\* type with Distance N/A, TargetPace N/A, Duration N/A and IntensityScore 0.
C19_RestDayEntry ==
    (call.fn = "Compose" /\ call.done /\ call.run_type \in RestTypes) =>
        /\ DOMAIN call.entry = {"Day", "WorkoutType", "WorkoutDetails", "TargetPace",
                                "Duration", "Distance", "IntensityScore"}
        /\ call.entry.WorkoutType = call.run_type
        /\ call.entry.Distance = None
        /\ call.entry.TargetPace = None
        /\ call.entry.Duration = None
        /\ call.entry.IntensityScore = 0

\* An Active Recovery day of a 20 km build week.
C19_Witness ==
    /\ call.fn = "Compose" /\ call.done
    /\ call.run_type = "Active Recovery"
    /\ call.ps.race_phase = "build"
    /\ call.ps.weekly_mileage = RInt(20)
    /\ call.entry.WorkoutDetails.template = "Light activity"
    /\ call.entry.Distance = None
    /\ call.entry.IntensityScore = 0

----------------------------------------------------------------------------
\* Properties of the day assignment (SpecAssign).

\* The workout types of Step A for the call: schedule.py:430
AssignedTypes ==
    generate_workout_types_rule_based_phase_aware(call.race_phase, 1, 12, call.run_days,
                                                  "5K")

\* The run days of the assigned week other than the long-run day, Monday first
OtherRunDays ==
    SelectSeq(week_days, LAMBDA d : /\ d \in DOMAIN call.week
                                    /\ d # call.long_run_day
                                    /\ call.week[d] # "Rest")

\* C23: the run days other than the long-run day carry, Monday first, the
\* workout types of Step A without LongRun in their order, and Easy beyond the
\* end of that list; for a phase and runDays of the table the workout types of
\* the non-Rest days are, as a multiset, the table row.
C23_WorkoutsInOrder ==
    (call.fn = "AssignDays" /\ call.done) =>
        LET filtered == Without(AssignedTypes, "LongRun")
        IN  /\ \A i \in DOMAIN OtherRunDays :
                  call.week[OtherRunDays[i]] =
                      IF i <= Len(filtered) THEN filtered[i] ELSE "Easy"
            /\ (call.race_phase \in RacePhases /\ call.run_days \in 1..7) =>
                  /\ Len(OtherRunDays) = Len(filtered)
                  /\ \A t \in RunningTypes :
                        Cardinality({d \in DOMAIN call.week : call.week[d] = t})
                            = Cardinality({i \in DOMAIN AssignedTypes :
                                              AssignedTypes[i] = t})

\* A peak week of 6 run days with the long run on Wednesday and the rest day
\* on Sunday: Monday Easy, Tuesday Intervals, Thursday Threshold, Friday Easy,
\* Saturday Recovery.
C23_Witness ==
    /\ call.fn = "AssignDays" /\ call.done
    /\ call.race_phase = "peak"
    /\ call.run_days = 6
    /\ call.long_run_day = "Wednesday"
    /\ [i \in DOMAIN OtherRunDays |-> call.week[OtherRunDays[i]]]
           = <<"Easy", "Intervals", "Threshold", "Easy", "Recovery">>

HardTypes == {"LongRun", "Threshold", "Intervals"}

\* C24: no two hard workouts (LongRun, Threshold, Intervals) of an assigned
\* week are on consecutive weekdays.
C24_HardWorkoutsSeparated ==
    (call.fn = "AssignDays" /\ call.done /\ call.race_phase \in RacePhases
        /\ call.run_days \in 1..7) =>
        \A i \in 1..(Len(week_days) - 1) :
            ~ /\ call.week[week_days[i]] \in HardTypes
              /\ call.week[week_days[i + 1]] \in HardTypes

\* C25: when at least two rest days are needed (runDays <= 5), Monday and
\* Friday, each unless it is the long-run day, are Rest days of the week.
C25_MondayFridayRest ==
    (call.fn = "AssignDays" /\ call.done /\ call.run_days <= 5) =>
        \A d \in {"Monday", "Friday"} :
            d # call.long_run_day => call.week[d] = "Rest"

\* Two rest days needed, the long run on Wednesday: the rest days are Monday
\* and Friday and no other.
C25_Witness ==
    /\ call.fn = "AssignDays" /\ call.done
    /\ call.run_days = 5
    /\ call.long_run_day = "Wednesday"
    /\ DaysOfType(call.week, "Rest") = {"Monday", "Friday"}

\* The rest days of the call beyond the preferred ones: the preferred days
\* taken, the days still free in week order, and the number of slots left
RestSlots ==
    LET needed == 7 - call.run_days
        preferred == IF needed >= 2 THEN {"Monday", "Friday"} \ {call.long_run_day}
                     ELSE {}
        free == SelectSeq(week_days,
                          LAMBDA d : d # call.long_run_day /\ d \notin preferred)
    IN  [preferred |-> preferred, free |-> free, left |-> needed - Cardinality(preferred)]

\* C26 as the claim states it: the rest-day slots left by the Monday/Friday
\* preference go to the earliest weekdays not yet assigned.
C26_EarliestDaysRest ==
    (call.fn = "AssignDays" /\ call.done /\ call.run_days \in 1..7) =>
        DaysOfType(call.week, "Rest") =
            RestSlots.preferred \cup Range(SubSeq(RestSlots.free, 1, RestSlots.left))

\* C26, amended: the rest-day slots left by the Monday/Friday preference go to
\* the latest weekdays not yet assigned, Sunday first.
C26_LatestDaysRest ==
    (call.fn = "AssignDays" /\ call.done /\ call.run_days \in 1..7) =>
        DaysOfType(call.week, "Rest") =
            RestSlots.preferred
                \cup Range(SubSeq(RestSlots.free,
                                  Len(RestSlots.free) - RestSlots.left + 1,
                                  Len(RestSlots.free)))

\* Three rest days with the long run on Saturday: Monday, Friday and then
\* Sunday, while Tuesday is a run day.
C26_Witness ==
    /\ call.fn = "AssignDays" /\ call.done
    /\ call.run_days = 4
    /\ call.long_run_day = "Saturday"
    /\ DaysOfType(call.week, "Rest") = {"Monday", "Friday", "Sunday"}
    /\ call.week["Tuesday"] # "Rest"

----------------------------------------------------------------------------
\* Requests handled concurrently: the server runs a handler per request, and
\* a handler gives way to the others at its database query (schedule.py:390),
\* at the Garmin fetch (schedule.py:408) and at the commit (schedule.py:507).
\* call.pc is the position of each handler and call.job what it carries from
\* one step to the next.

Handlers == {1, 2}

ConcRequests == {BaseRequest, [BaseRequest EXCEPT !.runDays = 3]}

NoJob == [data |-> BaseRequest, r |-> None, ps |-> None, prediction |-> None]

InitConc ==
    /\ now = 0
    /\ race_data = AllPredictions
    /\ schedule_cache = <<>>
    /\ request = BaseRequest
    /\ response = [status |-> 0, body |-> [error |-> "no request yet"], ran |-> <<>>]
    /\ call = [fn |-> "Handlers", pc |-> [h \in Handlers |-> "idle"],
               job |-> [h \in Handlers |-> NoJob]]

\* schedule.py:350-402: a valid request is read and the cache queried; a fresh
\* row answers it
Lookup(h, data) ==
    /\ call.fn = "Handlers"
    /\ call.pc[h] = "idle"
    /\ LET r == ReadRequest(data)
           ps == PhaseState(r, Today(now))
           found == CacheLookup(schedule_cache, Fingerprint(r, ps))
       IN  IF found # {} /\ \A i \in found : IsFresh(schedule_cache[i], now)
           THEN /\ \E i \in found :
                      response' = Reply(200, schedule_cache[i].schedule_json,
                                        <<"cache_query">>)
                /\ request' = data
                /\ UNCHANGED call
           ELSE /\ call' = [call EXCEPT
                              !.pc[h] = "fetch",
                              !.job[h] = [data |-> data, r |-> r, ps |-> ps,
                                          prediction |-> None]]
                /\ UNCHANGED <<request, response>>
    /\ UNCHANGED <<now, race_data, schedule_cache>>

\* schedule.py:404-423: the Garmin fetch and the prediction read from it
Fetch(h) ==
    /\ call.fn = "Handlers"
    /\ call.pc[h] = "fetch"
    /\ LET prediction_seconds ==
               PredictionSeconds(race_data, call.job[h].r.training_distance)
       IN  IF prediction_seconds = None
           THEN /\ response' = NoPredictionReply
                /\ request' = call.job[h].data
                /\ call' = [call EXCEPT !.pc[h] = "idle", !.job[h] = NoJob]
           ELSE /\ call' = [call EXCEPT !.pc[h] = "insert",
                                        !.job[h].prediction = prediction_seconds]
                /\ UNCHANGED <<request, response>>
    /\ UNCHANGED <<now, race_data, schedule_cache>>

\* schedule.py:425-509: the schedule computed, its row committed and returned
Insert(h) ==
    /\ call.fn = "Handlers"
    /\ call.pc[h] = "insert"
    /\ Len(schedule_cache) < MaxRows
    /\ LET job == call.job[h]
           full_response == BuildResponse(job.r, job.ps, job.prediction[1])
       IN  /\ schedule_cache' =
                 InsertRow(schedule_cache,
                           NewCacheRow(Fingerprint(job.r, job.ps), full_response, now))
           /\ response' = Reply(200, full_response,
                                <<"cache_query", "garmin_fetch", "compute", "cache_insert">>)
           /\ request' = job.data
    /\ call' = [call EXCEPT !.pc[h] = "idle", !.job[h] = NoJob]
    /\ UNCHANGED <<now, race_data>>

NextConc ==
    \/ \E h \in Handlers, data \in ConcRequests : Lookup(h, data)
    \/ \E h \in Handlers : Fetch(h)
    \/ \E h \in Handlers : Insert(h)
    \/ Tick
    \/ UpstreamChange

SpecConc == InitConc /\ [][NextConc]_vars

\* C27: for each fingerprint at most one row of the schedule cache is younger
\* than 24 hours at any time, also when requests of one fingerprint are
\* handled concurrently.
C27_OneFreshRowPerFingerprint ==
    \A i, j \in DOMAIN schedule_cache :
        (/\ i # j
         /\ RowKey(schedule_cache[i]) = RowKey(schedule_cache[j])
         /\ IsFresh(schedule_cache[i], now)
         /\ IsFresh(schedule_cache[j], now)) => FALSE

----------------------------------------------------------------------------
\* More properties of the endpoint (Spec).

ErrorReplies ==
    {MissingFieldsReply, InvalidLongRunDayReply, InvalidRaceDateReply, NoPredictionReply}

\* C28: a request that ends in an error (a required field missing, a bad
\* longRunDay, a malformed raceDate, no race prediction) or that the cache
\* answers leaves the rows of the schedule cache as they are; a row is added
\* only with a schedule that was computed and returned with status 200.
C28_ErrorsAndHitsWriteNothing ==
    [][RequestStep =>
          /\ (response' \in ErrorReplies \/ response'.ran = <<"cache_query">>)
                => schedule_cache' = schedule_cache
          /\ schedule_cache' # schedule_cache
                => /\ response'.status = 200
                   /\ HasSchedule(response'.body)
                   /\ "compute" \in Range(response'.ran)]_vars

\* After a schedule was computed and stored, the same request finds no
\* prediction once its row is 24 hours old: the error is returned and the
\* table still holds the one row.
C28_Witness ==
    /\ response = NoPredictionReply
    /\ Len(schedule_cache) = 1
    /\ RowKey(schedule_cache[1]) = RequestFingerprint(request, Today(now))
    /\ ~IsFresh(schedule_cache[1], now)

----------------------------------------------------------------------------
\* The phase multiplier of every week of every plan: schedule.py:381 applied to
\* each phase and each pair 1 <= current_week <= total_weeks of the plan
\* lengths of schedule.py:378.

PlanLengths ==
    {get_training_plan_length(d, e) : d \in TrainingDistances, e \in ExperienceLevels}

MultiplierCalls ==
    UNION {{[fn |-> "Multiplier", race_phase |-> p, current_week |-> w,
             total_weeks |-> T, done |-> FALSE, multiplier |-> None] :
               p \in RacePhases, w \in 1..T} : T \in PlanLengths}

InitMultiplier ==
    /\ now = 0
    /\ race_data = AllPredictions
    /\ schedule_cache = <<>>
    /\ request = BaseRequest
    /\ response = [status |-> 0, body |-> [error |-> "no request yet"], ran |-> <<>>]
    /\ call \in MultiplierCalls

\* schedule.py:381
Multiplier ==
    /\ call.fn = "Multiplier"
    /\ ~call.done
    /\ call' = [call EXCEPT
                  !.done = TRUE,
                  !.multiplier = calculate_phase_multiplier(call.race_phase,
                                                            call.current_week,
                                                            call.total_weeks)]
    /\ UNCHANGED <<now, race_data, schedule_cache, request, response>>

NextMultiplier == Multiplier

SpecMultiplier == InitMultiplier /\ [][NextMultiplier]_vars

RLessEq(a, b) == ~RLess(b, a)

\* C29: for the four phases and every 1 <= currentWeek <= totalWeeks the phase
\* multiplier lies within [0.6, 1.1]: base in (0.8, 1.0], build in (1.0, 1.1],
\* peak exactly 1.1, taper in [0.6, 1.0).
C29_MultiplierRange ==
    (call.fn = "Multiplier" /\ call.done) =>
        LET m == call.multiplier
        IN  /\ RLessEq(Rat(6, 10), m) /\ RLessEq(m, Rat(11, 10))
            /\ call.race_phase = "base" => (RLess(Rat(8, 10), m) /\ RLessEq(m, RInt(1)))
            /\ call.race_phase = "build" => (RLess(RInt(1), m) /\ RLessEq(m, Rat(11, 10)))
            /\ call.race_phase = "peak" => m = Rat(11, 10)
            /\ call.race_phase = "taper" => (RLessEq(Rat(6, 10), m) /\ RLess(m, RInt(1)))

\* The ends of the ranges are met in the last week of a plan: the taper of week
\* 24 of 24 is the lower bound 0.6.
C29_Witness ==
    /\ call.fn = "Multiplier" /\ call.done
    /\ call.race_phase = "taper"
    /\ call.current_week = 24
    /\ call.total_weeks = 24
    /\ call.multiplier = Rat(6, 10)

----------------------------------------------------------------------------
\* The batch fetch of garmin_data.py that the endpoint calls for its race
\* prediction (schedule.py:407-408). fresh is the set of data types with a
\* cache record that is_cache_stale finds fresh, has_activities tells whether
\* the Activity table holds activities of the day, failing is the set of data
\* types whose Garmin call raises, predictions is what get_race_predictions
\* returns and the cache record of race_predictions holds.

\* garmin_data.py:133-207: the data types fetched inside a try of their own
GuardedTypes == <<"training_readiness", "race_predictions", "vo2max", "heart_rate", "stress">>

DataTypes == {"sleep", "activities"} \cup Range(GuardedTypes)

\* results[key] = value
Put(results, key, value) ==
    [k \in DOMAIN results \cup {key} |-> IF k = key THEN value ELSE results[k]]

\* What a data type's Garmin call returns
Fetched(type, predictions) == IF type = "race_predictions" THEN predictions ELSE "fetched"

\* What a data type's cache record holds
Cached(type, predictions) == IF type = "race_predictions" THEN predictions ELSE "cached"

\* garmin_data.py:133-207: the guarded types from the i-th on
RECURSIVE FetchGuarded(_, _, _, _, _)
FetchGuarded(results, i, fresh, failing, predictions) ==
    IF i > Len(GuardedTypes) THEN results
    ELSE LET type == GuardedTypes[i]
             next == IF type \in fresh THEN Put(results, type, Cached(type, predictions))
                     ELSE IF type \in failing THEN results
                     ELSE Put(results, type, Fetched(type, predictions))
         IN  FetchGuarded(next, i + 1, fresh, failing, predictions)

\* garmin_data.py:104-262: the dict results
batch_fetch_garmin_data(fresh, has_activities, failing, predictions) ==
    IF "sleep" \notin fresh /\ "sleep" \in failing
    THEN <<>>
    ELSE LET with_sleep ==
                 Put(<<>>, "sleep",
                     IF "sleep" \in fresh THEN Cached("sleep", predictions)
                     ELSE Fetched("sleep", predictions))
             guarded == FetchGuarded(with_sleep, 1, fresh, failing, predictions)
         IN  IF has_activities THEN Put(guarded, "activities", "stored")
             ELSE IF "activities" \in failing THEN Put(guarded, "activities", <<>>)
             ELSE Put(guarded, "activities", Fetched("activities", predictions))

\* The dict {}: every key absent
NoPredictions ==
    [time5K |-> None, time10K |-> None, timeHalfMarathon |-> None, timeMarathon |-> None]

\* schedule.py:409: results.get('race_predictions', {})
RacePredictionsOf(results) == Get(results, "race_predictions", NoPredictions)

BatchCalls ==
    {[fn |-> "BatchFetch", fresh |-> fresh, has_activities |-> a, failing |-> failing,
      done |-> FALSE, results |-> <<>>, out |-> None] :
        fresh \in SUBSET {"sleep", "race_predictions"}, a \in BOOLEAN,
        failing \in SUBSET DataTypes}

InitBatch ==
    /\ now = 0
    /\ race_data = AllPredictions
    /\ schedule_cache = <<>>
    /\ request = BaseRequest
    /\ response = [status |-> 0, body |-> [error |-> "no request yet"], ran |-> <<>>]
    /\ call \in BatchCalls

\* schedule.py:404-491 for the request on an empty schedule cache, with the
\* batch fetch of garmin_data.py:104-262
BatchFetch ==
    /\ call.fn = "BatchFetch"
    /\ ~call.done
    /\ LET results == batch_fetch_garmin_data(call.fresh, call.has_activities,
                                              call.failing, race_data)
       IN  call' = [call EXCEPT
                      !.done = TRUE,
                      !.results = results,
                      !.out = FreshBody(request, Today(now), RacePredictionsOf(results))]
    /\ UNCHANGED <<now, race_data, schedule_cache, request, response>>

NextBatch == BatchFetch

SpecBatch == InitBatch /\ [][NextBatch]_vars

\* C30: whichever of the other data types (sleep, training readiness, VO2max,
\* heart rate, stress, activities) fails to be fetched, the race predictions
\* are fetched, or read from the data cache, and returned whenever their own
\* source works, and the schedule request is not failed with 'Race prediction
\* data not found'.
C30_RacePredictionsIndependent ==
    (/\ call.fn = "BatchFetch" /\ call.done
     /\ ("race_predictions" \in call.fresh \/ "race_predictions" \notin call.failing)) =>
        /\ "race_predictions" \in DOMAIN call.results
        /\ call.results["race_predictions"] = race_data
        /\ HasSchedule(call.out)

----------------------------------------------------------------------------
\* The two time conversions applied one after the other: a duration formatted
\* and parsed back, and a time string parsed and formatted back.

\* Durations are taken in half seconds up to MaxHalfSeconds of them.
MaxHalfSeconds == 130

\* Time strings are taken with the minutes 0..MaxMinutes.
MaxMinutes == 61

Durations ==
    {Rat(n, 2) : n \in 0..MaxHalfSeconds}
        \cup {Rat(n, 4) : n \in {14397, 14398, 14399, 14400, 14403, 29047}}

TimeStrings ==
    {m \o <<":">> \o sec :
        m \in {IntToStr(k) : k \in 0..MaxMinutes}
                \cup {<<"0">> \o IntToStr(k) : k \in 0..9},
        sec \in {Pad2(k) : k \in {0, 5, 30, 59}}}

TimeCalls ==
    {[fn |-> "Format", x |-> x, done |-> FALSE, str |-> None, back |-> None] :
        x \in Durations}
    \cup {[fn |-> "Parse", s |-> s, done |-> FALSE, seconds |-> None, back |-> None] :
            s \in TimeStrings}

InitTime ==
    /\ now = 0
    /\ race_data = AllPredictions
    /\ schedule_cache = <<>>
    /\ request = BaseRequest
    /\ response = [status |-> 0, body |-> [error |-> "no request yet"], ran |-> <<>>]
    /\ call \in TimeCalls

\* time_str_to_seconds(seconds_to_time_str(x))
FormatParse ==
    /\ call.fn = "Format"
    /\ ~call.done
    /\ LET str == seconds_to_time_str(call.x)
       IN  call' = [call EXCEPT !.done = TRUE, !.str = str,
                                !.back = time_str_to_seconds(str)]
    /\ UNCHANGED <<now, race_data, schedule_cache, request, response>>

\* seconds_to_time_str(time_str_to_seconds(s)), for a string that parses
ParseFormat ==
    /\ call.fn = "Parse"
    /\ ~call.done
    /\ LET seconds == time_str_to_seconds(call.s)
       IN  call' = [call EXCEPT
                      !.done = TRUE, !.seconds = seconds,
                      !.back = IF seconds = None THEN None
                               ELSE seconds_to_time_str(RInt(seconds[1]))]
    /\ UNCHANGED <<now, race_data, schedule_cache, request, response>>

NextTime == FormatParse \/ ParseFormat

SpecTime == InitTime /\ [][NextTime]_vars

\* C21 as the claim states it: a duration formatted and parsed back is the
\* duration rounded to the nearest second, for fractional seconds and for one
\* hour or more as well.
C21_RoundTripRounds ==
    (call.fn = "Format" /\ call.done) => call.back = Some(RRound(call.x))

\* C21, amended: a duration formatted and parsed back is the duration
\* truncated to the whole second, floor(x), for fractional seconds and for one
\* hour or more as well.
C21_RoundTripTruncates ==
    (call.fn = "Format" /\ call.done) => call.back = Some(RFloor(call.x))

\* 1 h 0 min 0.75 s is formatted 1:00:00 and read back as 3600 seconds, where
\* round gives 3601.
C21_Witness ==
    /\ call.fn = "Format" /\ call.done
    /\ call.x = Rat(14403, 4)
    /\ call.str = <<"1", ":", "0", "0", ":", "0", "0">>
    /\ call.back = Some(3600)
    /\ RRound(call.x) = 3601

\* A string of one or two digits, a colon and two digits below 60
IsMmSs(s) ==
    LET parts == SplitColon(s)
    IN  /\ Len(parts) = 2
        /\ Len(parts[1]) \in {1, 2}
        /\ Len(parts[2]) = 2
        /\ \A i \in 1..2 : \A j \in DOMAIN parts[i] : parts[i][j] \in Range(DigitChars)
        /\ DigitsValue(parts[2]) < 60

\* A string as seconds_to_time_str writes the times below one hour: the
\* minutes 0..59 without a leading zero
IsCanonicalMmSs(s) ==
    /\ IsMmSs(s)
    /\ LET minutes == SplitColon(s)[1]
       IN  /\ Len(minutes) = 2 => minutes[1] # "0"
           /\ DigitsValue(minutes) < 60

\* C22 as the claim states it: a valid mm:ss string parsed and formatted back
\* is the same string.
C22_RoundTripAnyMmSs ==
    (call.fn = "Parse" /\ call.done /\ IsMmSs(call.s)) => call.back = call.s

\* C22, amended: a string m:ss or mm:ss with the minutes 0..59 written without
\* a leading zero and the seconds 00..59, parsed and formatted back, is the
\* same string.
C22_RoundTripCanonical ==
    (call.fn = "Parse" /\ call.done /\ IsCanonicalMmSs(call.s)) => call.back = call.s

\* 5:05 comes back as it is, seconds padded.
C22_Witness ==
    /\ call.fn = "Parse" /\ call.done
    /\ call.s = <<"5", ":", "0", "5">>
    /\ call.seconds = Some(305)
    /\ call.back = call.s

====
